---- MODULE Spec2Model ----
(***************************************************************************)
(* Verification model of the MemVault long-term memory API:                *)
(*   - CostGuard (src/services/hybridCostGuard.ts, first class of the file)*)
(*   - MemoryWorker.processJob and the BullMQ queue (src/server.ts,        *)
(*     src/config/queue.ts)                                                *)
(*   - GraphRAGService.traverseGraph and ConsolidationService              *)
(*     (unnamed/part_007)                                                  *)
(*                                                                         *)
(* Money.  Redis and the UserBilling ledger hold integer cents.  Costs are *)
(* JavaScript numbers and the per-call price is 0.3 cents, so every cost   *)
(* in this model is counted in tenths of a cent (Scale tenths = 1 cent).   *)
(***************************************************************************)
EXTENDS Integers, Sequences, FiniteSets, TLC

VARIABLES
    \* ---- Balance Store (Redis), ledger (UserBilling), billing provider ----
    redisBalance,      \* [Users -> <<>> | <<cents>>]   key user:<id>:balance
    creditsBalance,    \* [Users -> <<>> | <<cents>>]   UserBilling.creditsBalance (<<>>: no row)
    tier,              \* [Users -> Tiers]              UserBilling.tier
    source,            \* [Users -> Sources]            lane the tenant authenticates through
    stripeCustomerId,  \* [Users -> BOOLEAN]            UserBilling.stripeCustomerId is set
    pendingSync,       \* set of mirror writes started by deduct and not yet landed
    invoices,          \* sequence of finalized overage invoices
    call,              \* [Procs -> record]             the CostGuard call each caller is in
    \* ---- history of the CostGuard calls ----
    hist

VARIABLES
    \* ---- graph store (PostgreSQL) ----
    entities,          \* set of Entity rows
    relationships,     \* set of Relationship rows
    \* ---- GraphRAGService.retrieve ----
    trav,              \* the traversal query in progress
    \* ---- ingestion ----
    memories,          \* set of Memory rows
    jobs,              \* [AllJobIds -> job]  the memory-processing queue
    \* ---- consolidation ----
    runs,              \* [Runs -> run]       the consolidateUser calls
    batches            \* [Batches -> batch]  the consolidateAllUsers calls

VARIABLES
    \* ---- billing endpoints (CostGuardService) ----
    serviceBalance,    \* [Users -> <<>> | <<credits>>]  key user:balance:<id>
    \* ---- scripts/test_async_pipeline.ts ----
    script             \* the position and the locals of testAsyncMemoryPipeline

guardVars == <<redisBalance, creditsBalance, tier, source, stripeCustomerId,
               pendingSync, invoices, call, hist>>

graphVars == <<entities, relationships, trav>>

workVars == <<memories, jobs, runs, batches>>

scriptVars == <<serviceBalance, script>>

nonGuardVars == <<graphVars, workVars, scriptVars>>

vars == <<guardVars, graphVars, workVars, scriptVars>>

----------------------------------------------------------------------------
(* Bounds *)
NumProcs == 2
MaxCalls == 3
MaxSeqCalls == 4
MaxJobs == 2
MaxTime == 2
NumRuns == 2
NumBatches == 2

(* Program constants *)
Scale == 10
COST_PER_API_CALL == 3
PRO_MAX_NEGATIVE == 100000
TRAVERSAL_LIMIT == 50
MAX_ENTITIES == 5
DEFAULT_GRAPH_DEPTH == 2
JOB_ATTEMPTS == 3
BACKOFF_DELAY == 2000
WORKER_CONCURRENCY == 5
DEFAULT_IMPORTANCE == 50
CONSOLIDATION_WINDOW_HOURS == 24
MIN_MEMORIES_FOR_CONSOLIDATION == 5
ESTIMATED_TOKENS_PER_MEMORY == 200
MAX_MEMORIES_PER_BATCH == 50
TEST_BALANCE == 10000

\* the tenants; the CostGuard specifications run the calls of the first one
Users == {"u1", "u2"}
GuardUsers == {"u1"}
Procs == 1..NumProcs
Tiers == {"FREE", "HOBBY", "PRO"}
Sources == {"RAPIDAPI", "DIRECT"}

None == <<>>
Some(v) == <<v>>
IsNone(o) == Len(o) = 0
Get(o) == o[1]

Abs(x) == IF x < 0 THEN -x ELSE x
Max(a, b) == IF a >= b THEN a ELSE b
Min(a, b) == IF a <= b THEN a ELSE b

----------------------------------------------------------------------------
(* CostGuard: pure parts                                                   *)

\* OVERAGE_POLICY[tier].maxNegativeBalance, in cents
MaxNegativeBalance(t) == IF t = "PRO" THEN -PRO_MAX_NEGATIVE ELSE 0

\* a policy table with triggerInvoice set for every tier
TriggerInvoiceAnyTier(t) == t \in Tiers

\* OVERAGE_POLICY[tier].triggerInvoice
TriggerInvoice(t) == t = "PRO"

\* a token-based price (1 cent per started 5000 tokens) in place of the flat one
TokenBasedCost(tokenCount, hasEmbedding, hasGraphExtraction) ==
    Scale * ((tokenCount + 4999) \div 5000)

\* calculateEstimatedCost: the per-call price, whatever the token count and flags
calculateEstimatedCost(tokenCount, hasEmbedding, hasGraphExtraction) ==
    COST_PER_API_CALL

\* Math.round of a non-negative amount given in tenths of a cent, in cents
MathRound(x) == (x + (Scale \div 2)) \div Scale

\* INCRBY accepts integer arguments only
IsInteger(x) == x % Scale = 0

\* UserContext as hybridAuth attaches it (balance: the ledger value at that time)
Context(u) ==
    [userId |-> u, source |-> source[u], tier |-> tier[u],
     balance |-> IF IsNone(creditsBalance[u]) \/ source[u] = "RAPIDAPI"
                 THEN 0 ELSE Get(creditsBalance[u])]

\* balance - estimatedCost, in tenths
BalanceAfter(balance, estimatedCost) == balance * Scale - estimatedCost

\* the limit test with <= in place of <
ExceedsOrMeetsLimit(balance, ctx, estimatedCost) ==
    balance * Scale - estimatedCost <= (IF ctx.tier = "PRO" THEN -PRO_MAX_NEGATIVE ELSE 0) * Scale

\* the test of checkAccess: would the operation exceed the tier's limit
ExceedsLimit(balance, ctx, estimatedCost) ==
    BalanceAfter(balance, estimatedCost) < MaxNegativeBalance(ctx.tier) * Scale

\* shortfall = Math.abs(balanceAfter - policy.maxNegativeBalance), in tenths
Shortfall(balance, ctx, estimatedCost) ==
    Abs(BalanceAfter(balance, estimatedCost) - MaxNegativeBalance(ctx.tier) * Scale)

NoResult == [kind |-> "none", allowed |-> FALSE, allowBackgroundJobs |-> FALSE,
             code |-> "", shortfall |-> 0, value |-> 0]

\* a RapidAPI result that leaves background jobs enabled
RapidApiResultWithJobs == [NoResult EXCEPT !.kind = "return", !.allowed = TRUE,
                           !.allowBackgroundJobs = TRUE, !.code = "RAPIDAPI"]

\* the AccessCheckResult returned for a RapidAPI context
RapidApiResult == [NoResult EXCEPT !.kind = "return", !.allowed = TRUE,
                   !.allowBackgroundJobs = FALSE, !.code = "RAPIDAPI"]

\* the outcome of checkAccess for a DIRECT context once the balance is known:
\* the ApiError INSUFFICIENT_BALANCE it throws, or the result it returns
DirectResult(balance, ctx, estimatedCost) ==
    IF ExceedsLimit(balance, ctx, estimatedCost)
    THEN [NoResult EXCEPT !.kind = "throw", !.code = "INSUFFICIENT_BALANCE",
                          !.shortfall = Shortfall(balance, ctx, estimatedCost),
                          !.value = balance]
    ELSE [NoResult EXCEPT !.kind = "return", !.allowed = TRUE,
                          !.allowBackgroundJobs = TRUE, !.code = "OK",
                          !.value = balance]

\* checkAccess triggers an invoice before it throws, for PRO only
CheckTriggersInvoice(balance, ctx, estimatedCost) ==
    /\ ExceedsLimit(balance, ctx, estimatedCost)
    /\ TriggerInvoice(ctx.tier)
    /\ ctx.tier = "PRO"

\* redis.incrby(key, delta): the value the key holds afterwards
IncrBy(stored, delta) == (IF IsNone(stored) THEN 0 ELSE Get(stored)) + delta

\* a read-modify-write deduction from the balance held in the UserContext
DeductFromContext(stored, ctx, actualCost) == ctx.balance - (actualCost \div Scale)

\* the balance deduct leaves in Redis: one INCRBY of -actualCost
DeductNewBalance(stored, ctx, actualCost) == IncrBy(stored, -(actualCost \div Scale))

\* triggerStripeInvoice: the invoice item appended (amount: Math.round(amount))
InvoiceFor(u, amount) == [userId |-> u, amount |-> MathRound(amount)]

----------------------------------------------------------------------------
(* CostGuard: the calls, one action per await                              *)

InitBalances == {1, 100}
\* costs in tenths of a cent: the per-call price, 1 cent, 200 cents
EstimateValues == {COST_PER_API_CALL, 10, 2000}
DeductValues == {COST_PER_API_CALL, 10}
CreditValues == {10}
TokenCounts == {1000, 6000}

IdleCall == [op |-> "idle", pc |-> "idle", userId |-> "",
             ctx |-> [userId |-> "", source |-> "DIRECT", tier |-> "FREE", balance |-> 0],
             estimatedCost |-> 0, actualCost |-> 0, balance |-> 0, result |-> NoResult]

Free(p) == call[p].pc = "idle"
Active(p) == ~Free(p)

\* callers are anonymous: a new call takes the first free one
FirstFree == CHOOSE p \in Procs : Free(p) /\ \A q \in Procs : Free(q) => p <= q

\* calls may overlap: any free caller may start one
Concurrent == hist.started < MaxCalls

\* one call at a time: a call starts only when none is in progress
Sequential == hist.started < MaxSeqCalls /\ \A p \in Procs : Free(p)

Begin(u, op, pc, est, act) ==
    /\ \E p \in Procs : Free(p)
    /\ call' = [call EXCEPT ![FirstFree] =
                 [IdleCall EXCEPT !.op = op, !.pc = pc, !.userId = u, !.ctx = Context(u),
                                  !.estimatedCost = est, !.actualCost = act]]

Started(u, checked) ==
    [hist EXCEPT !.started = @ + 1,
                 !.overlap[u] = @ \/ \E q \in Procs : Active(q) /\ call[q].userId = u,
                 !.unchecked[u] = @ \/ ~checked]

\* the balance the tenant has, as getBalance would report it now
Balance(u) ==
    IF ~IsNone(redisBalance[u]) THEN Get(redisBalance[u])
    ELSE IF ~IsNone(creditsBalance[u]) THEN Get(creditsBalance[u])
    ELSE 0

\* checkAccess(userId, context, estimatedCost), up to its first await
StartCheckAccess(u, est) ==
    /\ Begin(u, "checkAccess", "get", est, 0)
    /\ hist' = Started(u, TRUE)
    /\ UNCHANGED <<redisBalance, creditsBalance, tier, source, nonGuardVars, stripeCustomerId,
                   pendingSync, invoices>>

\* getBalance(userId), up to its first await
StartGetBalance(u) ==
    /\ Begin(u, "getBalance", "get", 0, 0)
    /\ hist' = Started(u, TRUE)
    /\ UNCHANGED <<redisBalance, creditsBalance, tier, source, nonGuardVars, stripeCustomerId,
                   pendingSync, invoices>>

\* deduct(userId, context, actualCost) called on its own
StartDeduct(u, cost) ==
    /\ Begin(u, "deduct", "incr", 0, cost)
    /\ hist' = Started(u, FALSE)
    /\ UNCHANGED <<redisBalance, creditsBalance, tier, source, nonGuardVars, stripeCustomerId,
                   pendingSync, invoices>>

\* addCredits(userId, amount)
StartAddCredits(u, amount) ==
    /\ Begin(u, "addCredits", "incr", 0, amount)
    /\ hist' = Started(u, TRUE)
    /\ UNCHANGED <<redisBalance, creditsBalance, tier, source, nonGuardVars, stripeCustomerId,
                   pendingSync, invoices>>

\* checkAccess(cost) followed, when granted, by deduct(cost) of the same cost
\* (testHobbyUser, testProUser)
StartCheckedDeduct(u, cost) ==
    /\ Begin(u, "paid", "get", cost, cost)
    /\ hist' = Started(u, TRUE)
    /\ UNCHANGED <<redisBalance, creditsBalance, tier, source, nonGuardVars, stripeCustomerId,
                   pendingSync, invoices>>

\* the billing of one ingestion job or consolidation run: checkAccess of the
\* estimate, then deduct of the actual cost, both from calculateEstimatedCost
StartPaidOperation(u, estimatedTokens, usageTokens, graph) ==
    /\ Begin(u, "paid", "get",
             calculateEstimatedCost(estimatedTokens, TRUE, graph),
             calculateEstimatedCost(
                 (IF usageTokens = 0 THEN estimatedTokens ELSE usageTokens) + 100,
                 TRUE, graph))
    /\ hist' = Started(u, TRUE)
    /\ UNCHANGED <<redisBalance, creditsBalance, tier, source, nonGuardVars, stripeCustomerId,
                   pendingSync, invoices>>

\* triggerStripeInvoice(userId, amount): resolve or create the customer, create
\* the invoice item and the invoice, finalize it
triggerStripeInvoice(u, amount) ==
    /\ stripeCustomerId' = [stripeCustomerId EXCEPT ![u] = TRUE]
    /\ invoices' = Append(invoices, InvoiceFor(u, amount))

\* a call that has finished: the caller is free again, the finished call is
\* remembered as the last one
Finished(h, c) ==
    [h EXCEPT !.last = IF c.op \in {"checkAccess", "paid"} /\ c.pc # "incr"
                       THEN [c EXCEPT !.pc = "done", !.actualCost = 0, !.ctx.balance = 0]
                       ELSE [IdleCall EXCEPT !.pc = "done", !.op = c.op]]

\* what the caller does once getBalance has produced `balance`
Produced(p, balance) ==
    LET c == call[p]
        u == c.userId
        r == DirectResult(balance, c.ctx, c.estimatedCost)
        h == [hist EXCEPT !.observed[u] = Some(balance)]
        h2 == IF CheckTriggersInvoice(balance, c.ctx, c.estimatedCost) /\ c.op # "getBalance"
              THEN [h EXCEPT !.invoicesSinceCredit[u] = @ + 1] ELSE h
    IN  /\ IF c.op = "getBalance"
           THEN /\ call' = [call EXCEPT ![p] = IdleCall]
                /\ hist' = Finished(h, [c EXCEPT !.balance = balance,
                                                 !.result = [NoResult EXCEPT !.kind = "return",
                                                                             !.value = balance]])
           ELSE IF c.op = "paid" /\ r.kind = "return"
           THEN /\ call' = [call EXCEPT ![p].pc = "incr", ![p].balance = balance,
                                        ![p].result = r]
                /\ hist' = Finished(h2, [c EXCEPT !.balance = balance, !.result = r])
           ELSE /\ call' = [call EXCEPT ![p] = IdleCall]
                /\ hist' = Finished(h2, [c EXCEPT !.balance = balance, !.result = r])
        /\ IF CheckTriggersInvoice(balance, c.ctx, c.estimatedCost) /\ c.op # "getBalance"
           THEN triggerStripeInvoice(u, r.shortfall)
           ELSE UNCHANGED <<stripeCustomerId, invoices>>

\* checkAccess, RapidAPI lane: return at once, the balance is not read
RapidApiBypass(p) ==
    /\ call[p].pc = "get"
    /\ call[p].op \in {"checkAccess", "paid"}
    /\ call[p].ctx.source = "RAPIDAPI"
    /\ IF call[p].op = "paid"
       THEN /\ call' = [call EXCEPT ![p].pc = "incr", ![p].result = RapidApiResult]
            /\ hist' = Finished(hist, [call[p] EXCEPT !.result = RapidApiResult])
       ELSE /\ call' = [call EXCEPT ![p] = IdleCall]
            /\ hist' = Finished(hist, [call[p] EXCEPT !.result = RapidApiResult])
    /\ UNCHANGED <<redisBalance, creditsBalance, tier, source, nonGuardVars, stripeCustomerId,
                   pendingSync, invoices>>

\* getBalance: redis.get(balanceKey)
RedisGet(p) ==
    /\ call[p].pc = "get"
    /\ call[p].op = "getBalance" \/ call[p].ctx.source = "DIRECT"
    /\ IF IsNone(redisBalance[call[p].userId])
       THEN /\ call' = [call EXCEPT ![p].pc = "load"]
            /\ UNCHANGED <<stripeCustomerId, invoices, hist>>
       ELSE Produced(p, Get(redisBalance[call[p].userId]))
    /\ UNCHANGED <<redisBalance, creditsBalance, tier, source, nonGuardVars, pendingSync>>

\* loadBalanceFromDatabase: prisma.userBilling.findUnique
LoadBalance(p) ==
    /\ call[p].pc = "load"
    /\ IF IsNone(creditsBalance[call[p].userId])
       THEN Produced(p, 0)
       ELSE /\ call' = [call EXCEPT ![p].pc = "set",
                                    ![p].balance = Get(creditsBalance[call[p].userId])]
            /\ UNCHANGED <<stripeCustomerId, invoices, hist>>
    /\ UNCHANGED <<redisBalance, creditsBalance, tier, source, nonGuardVars, pendingSync>>

\* loadBalanceFromDatabase: redis.set(balanceKey, balance)
RedisSet(p) ==
    /\ call[p].pc = "set"
    /\ redisBalance' = [redisBalance EXCEPT ![call[p].userId] = Some(call[p].balance)]
    /\ Produced(p, call[p].balance)
    /\ UNCHANGED <<creditsBalance, tier, source, nonGuardVars, pendingSync>>

\* deduct: the RapidAPI return, or redis.incrby(balanceKey, -actualCost), the
\* unawaited syncBalanceToDatabase and the floor check with its invoice
Deduct(p) ==
    LET c == call[p]
        u == c.userId
        newBalance == DeductNewBalance(redisBalance[u], c.ctx, c.actualCost)
        invoice == newBalance < MaxNegativeBalance(c.ctx.tier) /\ TriggerInvoice(c.ctx.tier)
    IN  /\ c.pc = "incr"
        /\ c.op \in {"deduct", "paid"}
        /\ call' = [call EXCEPT ![p] = IdleCall]
        /\ IF c.ctx.source = "RAPIDAPI"
           THEN /\ hist' = Finished(hist, c)
                /\ UNCHANGED <<redisBalance, pendingSync, stripeCustomerId, invoices>>
           ELSE IF ~IsInteger(c.actualCost)
           THEN \* Redis rejects the command; deduct throws DEDUCTION_FAILED
                /\ hist' = Finished(hist, [c EXCEPT !.result.kind = "throw",
                                                    !.result.code = "DEDUCTION_FAILED"])
                /\ UNCHANGED <<redisBalance, pendingSync, stripeCustomerId, invoices>>
           ELSE /\ redisBalance' = [redisBalance EXCEPT ![u] = Some(newBalance)]
                /\ pendingSync' = pendingSync \cup {[userId |-> u, balance |-> newBalance]}
                /\ hist' = Finished(
                     [hist EXCEPT !.deducted[u] = @ + (c.actualCost \div Scale),
                                  !.invoicesSinceCredit[u] = IF invoice THEN @ + 1 ELSE @],
                     [c EXCEPT !.balance = newBalance])
                /\ IF invoice
                   THEN triggerStripeInvoice(u, Abs(newBalance) * Scale)
                   ELSE UNCHANGED <<stripeCustomerId, invoices>>
        /\ UNCHANGED <<creditsBalance, tier, source, nonGuardVars>>

\* addCredits: redis.incrby(balanceKey, amount)
AddCredits(p) ==
    LET c == call[p]
        u == c.userId
        newBalance == IncrBy(redisBalance[u], c.actualCost \div Scale)
    IN  /\ c.pc = "incr"
        /\ c.op = "addCredits"
        /\ redisBalance' = [redisBalance EXCEPT ![u] = Some(newBalance)]
        /\ call' = [call EXCEPT ![p].pc = "sync", ![p].balance = newBalance]
        /\ hist' = [hist EXCEPT !.credited[u] = @ + (c.actualCost \div Scale),
                                !.invoicesSinceCredit[u] = 0]
        /\ UNCHANGED <<creditsBalance, tier, source, nonGuardVars, stripeCustomerId, pendingSync, invoices>>

\* syncBalanceToDatabase: prisma.userBilling.update; a missing row is an error
\* that is logged and swallowed
SyncedLedger(u, balance) ==
    IF IsNone(creditsBalance[u]) THEN creditsBalance
    ELSE [creditsBalance EXCEPT ![u] = Some(balance)]

\* addCredits: the awaited syncBalanceToDatabase, then return newBalance
AddCreditsSync(p) ==
    /\ call[p].pc = "sync"
    /\ creditsBalance' = SyncedLedger(call[p].userId, call[p].balance)
    /\ call' = [call EXCEPT ![p] = IdleCall]
    /\ hist' = Finished(hist, [call[p] EXCEPT !.result = [NoResult EXCEPT !.kind = "return",
                                                           !.value = call[p].balance]])
    /\ UNCHANGED <<redisBalance, tier, source, nonGuardVars, stripeCustomerId, pendingSync, invoices>>

\* a mirror write started by deduct reaches the ledger
SyncLands(s) ==
    /\ s \in pendingSync
    /\ creditsBalance' = SyncedLedger(s.userId, s.balance)
    /\ pendingSync' = pendingSync \ {s}
    /\ UNCHANGED <<redisBalance, tier, source, nonGuardVars, stripeCustomerId, invoices, call, hist>>

----------------------------------------------------------------------------
InitHist ==
    [started |-> 0,
     initial |-> [u \in Users |-> Balance(u)],
     hydrated |-> [u \in Users |-> ~IsNone(redisBalance[u])],
     deducted |-> [u \in Users |-> 0],
     credited |-> [u \in Users |-> 0],
     observed |-> [u \in Users |-> None],
     invoicesSinceCredit |-> [u \in Users |-> 0],
     overlap |-> [u \in Users |-> FALSE],
     unchecked |-> [u \in Users |-> FALSE],
     last |-> IdleCall]

\* a stored balance respects the floor of the tenant's tier
StartBalances(t) == IF t = "PRO" THEN {100, MaxNegativeBalance(t) + 1} ELSE InitBalances

GuardInit ==
    /\ tier \in [Users -> Tiers]
    /\ source \in [Users -> Sources]
    /\ \E b \in [Users -> InitBalances \cup {MaxNegativeBalance("PRO") + 1}] :
         /\ \A u \in Users : b[u] \in StartBalances(tier[u])
         /\ redisBalance \in [Users -> {None} \cup {Some(x) : x \in InitBalances \cup {MaxNegativeBalance("PRO") + 1}}]
         /\ creditsBalance \in [Users -> {None} \cup {Some(x) : x \in InitBalances \cup {MaxNegativeBalance("PRO") + 1}}]
         /\ \A u \in Users : redisBalance[u] \in {None, Some(b[u])}
         /\ \A u \in Users : creditsBalance[u] \in {None, Some(b[u])}
    /\ \A u \in Users \ GuardUsers :
         /\ tier[u] = "FREE" /\ source[u] = "DIRECT"
         /\ IsNone(redisBalance[u]) /\ IsNone(creditsBalance[u])
    /\ stripeCustomerId = [u \in Users |-> FALSE]
    /\ pendingSync = {}
    /\ invoices = <<>>
    /\ call = [p \in Procs |-> IdleCall]
    /\ hist = InitHist

\* Stripe webhook, invoice.payment_succeeded for overage invoice i:
\* prisma.userBilling.update({ creditsBalance: 0 }) for invoice.metadata.userId;
\* a missing row is an error answered with 500
PaymentSucceeded(i) ==
    LET u == invoices[i].userId
    IN  /\ ~IsNone(creditsBalance[u])
        /\ creditsBalance' = [creditsBalance EXCEPT ![u] = Some(0)]
        /\ UNCHANGED <<redisBalance, tier, source, nonGuardVars, stripeCustomerId,
                       pendingSync, invoices, call, hist>>

GuardSteps ==
    \/ \E p \in Procs : RapidApiBypass(p)
    \/ \E p \in Procs : RedisGet(p)
    \/ \E p \in Procs : LoadBalance(p)
    \/ \E p \in Procs : RedisSet(p)
    \/ \E p \in Procs : Deduct(p)
    \/ \E p \in Procs : AddCredits(p)
    \/ \E p \in Procs : AddCreditsSync(p)
    \/ \E s \in pendingSync : SyncLands(s)

\* CostGuard under concurrent callers
GuardNext ==
    \/ Concurrent /\ \E u \in GuardUsers, est \in EstimateValues : StartCheckAccess(u, est)
    \/ Concurrent /\ \E u \in GuardUsers : StartGetBalance(u)
    \/ Concurrent /\ \E u \in GuardUsers, cost \in DeductValues : StartDeduct(u, cost)
    \/ Concurrent /\ \E u \in GuardUsers, amount \in CreditValues :
          StartAddCredits(u, amount)
    \/ GuardSteps

\* CostGuard used as the paid features use it, one call at a time
\* the webhook route: Stripe delivers the payment of a finalized invoice
Webhook == \E i \in 1..Len(invoices) : PaymentSucceeded(i)

\* one call at a time, and the payments of the invoices they raise
WebhookNext ==
    \/ Sequential /\ \E u \in GuardUsers : StartGetBalance(u)
    \/ Sequential /\ \E u \in GuardUsers, est \in EstimateValues : StartCheckAccess(u, est)
    \/ Sequential /\ \E u \in GuardUsers, cost \in {x \in DeductValues : IsInteger(x)} :
          StartCheckedDeduct(u, cost)
    \/ Sequential /\ \E u \in GuardUsers, amount \in CreditValues :
          StartAddCredits(u, amount)
    \/ GuardSteps
    \/ Webhook

\* worker concurrency: processJob runs overlap, each doing checkAccess and then
\* deduct with the cost it checked
WorkerNext ==
    \/ Concurrent /\ \E u \in GuardUsers, cost \in {x \in DeductValues : IsInteger(x)} :
          StartCheckedDeduct(u, cost)
    \/ \E p \in Procs : RapidApiBypass(p)
    \/ \E p \in Procs : RedisGet(p)
    \/ \E p \in Procs : LoadBalance(p)
    \/ \E p \in Procs : RedisSet(p)
    \/ \E p \in Procs : Deduct(p)
    \/ \E s \in pendingSync : SyncLands(s)

BillingNext ==
    \/ Sequential /\ \E u \in GuardUsers, est \in EstimateValues : StartCheckAccess(u, est)
    \/ Sequential /\ \E u \in GuardUsers : StartGetBalance(u)
    \/ Sequential /\ \E u \in GuardUsers, amount \in CreditValues :
          StartAddCredits(u, amount)
    \/ Sequential /\ \E u \in GuardUsers, cost \in {x \in DeductValues : IsInteger(x)} :
          StartCheckedDeduct(u, cost)
    \/ Sequential /\ \E u \in GuardUsers, et \in TokenCounts, ut \in {0} \cup TokenCounts,
                        g \in BOOLEAN : StartPaidOperation(u, et, ut, g)
    \/ GuardSteps

----------------------------------------------------------------------------
(* Graph store (Entity, Relationship) and GraphRAGService.traverseGraph     *)

\* Text.  An entity name, a path and a relationship chain are strings; a
\* string is modelled as a sequence of tokens, one of which is the separator
\* ' -> ' the traversal joins paths with.  A name may contain the separator.
SEP == " -> "
NameA == <<"A">>
NameB == <<"B">>
NameC == <<"C">>
NameD == <<"D">>
NamePQ == <<"P", SEP, "Q">>

\* an Entity row
EntityRow(id, u, name, type, description, importance) ==
    [id |-> id, userId |-> u, name |-> name, type |-> type,
     description |-> description, embedding |-> description,
     importance |-> importance, isDeleted |-> FALSE]

\* a Relationship row
RelationshipRow(id, u, from, to, predicate) ==
    [id |-> id, userId |-> u, fromEntityId |-> from, toEntityId |-> to,
     predicate |-> predicate, isDeleted |-> FALSE]

Elements(seq) == {seq[i] : i \in 1..Len(seq)}

\* position of the first separator of s, 0 when it has none
FirstSep(s) ==
    IF \E i \in 1..Len(s) : s[i] = SEP
    THEN CHOOSE i \in 1..Len(s) : s[i] = SEP /\ \A j \in 1..(i - 1) : s[j] # SEP
    ELSE 0

RECURSIVE SplitTokens(_)
SplitTokens(s) ==
    LET k == FirstSep(s)
    IN  IF k = 0 THEN <<s>>
        ELSE <<SubSeq(s, 1, k - 1)>> \o SplitTokens(SubSeq(s, k + 1, Len(s)))

\* string_to_array(path, ' -> '): the empty string gives the empty array
string_to_array(s) == IF s = <<>> THEN <<>> ELSE SplitTokens(s)

\* eg.path || ' -> ' || target.name
JoinPath(path, name) == path \o <<SEP>> \o name

\* CASE WHEN eg."relationshipChain" IS NULL THEN r.predicate
\*      ELSE eg."relationshipChain" || ' -> ' || r.predicate END
JoinChain(chain, predicate) ==
    IF IsNone(chain) THEN Some(<<predicate>>)
    ELSE Some(Get(chain) \o <<SEP, predicate>>)

\* target.name != ALL(string_to_array(eg.path, ' -> '))
NotInPath(target, eg) == target.name \notin Elements(string_to_array(eg.path))

\* the cycle guard left out
NoCycleGuard(target, eg) == TRUE

\* base case of the recursive CTE: the anchor entities at depth 0
BaseRows(u, anchorEntityIds) ==
    {[entityId |-> e.id, entityName |-> e.name, entityType |-> e.type,
      depth |-> 0, path |-> e.name, relationshipChain |-> None] :
        e \in {x \in entities : x.id \in anchorEntityIds /\ x.userId = u /\ ~x.isDeleted}}

\* the recursive term joined on either end of a relationship and without the
\* isDeleted filter of the target
RecursiveRowsUndirected(u, maxDepth, working) ==
    {[entityId |-> t[3].id, entityName |-> t[3].name, entityType |-> t[3].type,
      depth |-> t[1].depth + 1, path |-> JoinPath(t[1].path, t[3].name),
      relationshipChain |-> JoinChain(t[1].relationshipChain, t[2].predicate)] :
        t \in {x \in working \X relationships \X entities :
                 /\ \/ x[2].fromEntityId = x[1].entityId /\ x[3].id = x[2].toEntityId
                    \/ x[2].toEntityId = x[1].entityId /\ x[3].id = x[2].fromEntityId
                 /\ x[1].depth < maxDepth
                 /\ x[2].userId = u
                 /\ ~x[2].isDeleted
                 /\ NotInPath(x[3], x[1])}}

\* recursive case: one evaluation of the recursive term over the working table
RecursiveRows(u, maxDepth, working) ==
    {[entityId |-> t[3].id, entityName |-> t[3].name, entityType |-> t[3].type,
      depth |-> t[1].depth + 1, path |-> JoinPath(t[1].path, t[3].name),
      relationshipChain |-> JoinChain(t[1].relationshipChain, t[2].predicate)] :
        t \in {x \in working \X relationships \X entities :
                 /\ x[2].fromEntityId = x[1].entityId
                 /\ x[3].id = x[2].toEntityId
                 /\ x[1].depth < maxDepth
                 /\ x[2].userId = u
                 /\ ~x[2].isDeleted
                 /\ ~x[3].isDeleted
                 /\ NotInPath(x[3], x[1])}}

\* collation order of the names of the model
NameOrder == <<NameA, NameB, NameC, NameD, NamePQ>>
NameRank(name) ==
    IF \E i \in 1..Len(NameOrder) : NameOrder[i] = name
    THEN CHOOSE i \in 1..Len(NameOrder) : NameOrder[i] = name
    ELSE Len(NameOrder) + 1

\* ORDER BY depth ASC, "entityName" ASC
SortsBefore(a, b) ==
    \/ a.depth < b.depth
    \/ a.depth = b.depth /\ NameRank(a.entityName) < NameRank(b.entityName)

\* the query without its LIMIT
Unlimited(rows) == {rows}

\* LIMIT 50 after the ORDER BY: every set the database may return (rows that
\* tie in the order are cut in an unspecified way)
RECURSIVE Limited(_)
Limited(rows) ==
    IF Cardinality(rows) <= TRAVERSAL_LIMIT THEN {rows}
    ELSE UNION {Limited(rows \ {m}) :
                  m \in {x \in rows : \A y \in rows : ~SortsBefore(x, y)}}

IdleTraversal ==
    [pc |-> "idle", userId |-> "", anchorEntityIds |-> {}, maxDepth |-> 0,
     working |-> {}, cte |-> {}, graphNodes |-> {}]

\* the entities findSimilarEntities can return for a tenant
Anchorable(u) == {e.id : e \in {x \in entities : x.userId = u /\ ~x.isDeleted}}

\* retrieve(options) up to the traversal query: the anchors are the entities
\* the vector search found; traverseGraph returns [] at once without anchors
StartRetrieve(u, anchorEntityIds, graphDepth) ==
    /\ trav.pc = "idle"
    /\ anchorEntityIds \subseteq Anchorable(u)
    /\ Cardinality(anchorEntityIds) <= MAX_ENTITIES
    /\ IF anchorEntityIds = {}
       THEN trav' = [IdleTraversal EXCEPT !.pc = "done", !.userId = u,
                                          !.maxDepth = graphDepth]
       ELSE trav' = [pc |-> "cte", userId |-> u, anchorEntityIds |-> anchorEntityIds,
                     maxDepth |-> graphDepth,
                     working |-> BaseRows(u, anchorEntityIds),
                     cte |-> BaseRows(u, anchorEntityIds),
                     graphNodes |-> {}]
    /\ UNCHANGED <<guardVars, entities, relationships, workVars, scriptVars>>

\* one iteration of WITH RECURSIVE: the recursive term is evaluated over the
\* rows of the previous iteration and its rows are added to the result
RecursiveStep ==
    /\ trav.pc = "cte"
    /\ trav.working # {}
    /\ LET new == RecursiveRows(trav.userId, trav.maxDepth, trav.working)
       IN  trav' = [trav EXCEPT !.working = new, !.cte = @ \cup new]
    /\ UNCHANGED <<guardVars, entities, relationships, workVars, scriptVars>>

\* the iteration produced no row: SELECT DISTINCT ... WHERE depth > 0
\* ORDER BY depth, "entityName" LIMIT 50
FinalSelect ==
    /\ trav.pc = "cte"
    /\ trav.working = {}
    /\ \E rows \in Limited({r \in trav.cte : r.depth > 0}) :
         trav' = [trav EXCEPT !.pc = "done", !.graphNodes = rows]
    /\ UNCHANGED <<guardVars, entities, relationships, workVars, scriptVars>>

GraphDepths == {1, DEFAULT_GRAPH_DEPTH, 5}

\* a graph over three entities of tenant u1: any subset of the relationships
\* of a three-cycle and two chords; the first entity's name may hold ' -> '
CandidateRelationships ==
    {RelationshipRow("r1", "u1", "e1", "e2", "knows"),
     RelationshipRow("r2", "u1", "e2", "e3", "knows"),
     RelationshipRow("r3", "u1", "e3", "e1", "knows"),
     RelationshipRow("r4", "u1", "e1", "e3", "likes"),
     RelationshipRow("r5", "u1", "e2", "e1", "likes")}

\* a graph with fan-out, entered at A: 3 relationships from A to B, 4 from
\* B to C and 3 from C to D, which is 3 paths of one hop, 12 of two hops and
\* 36 of three hops from A
FanOutEntities ==
    {EntityRow("e1", "u1", NameA, "Person", <<"d0">>, 50),
     EntityRow("f2", "u1", NameB, "Person", <<"d0">>, 50),
     EntityRow("f3", "u1", NameC, "Person", <<"d0">>, 50),
     EntityRow("f4", "u1", NameD, "Person", <<"d0">>, 50)}

FanOutRelationships ==
    {RelationshipRow(<<"e1", "f2", p>>, "u1", "e1", "f2", p) : p \in {"p1", "p2", "p3"}}
    \cup {RelationshipRow(<<"f2", "f3", p>>, "u1", "f2", "f3", p) :
             p \in {"p1", "p2", "p3", "p4"}}
    \cup {RelationshipRow(<<"f3", "f4", p>>, "u1", "f3", "f4", p) : p \in {"p1", "p2", "p3"}}

TraversalInit ==
    /\ \/ /\ \E n \in {NameA, NamePQ}, d \in BOOLEAN :
               entities = {EntityRow("e1", "u1", n, "Person", <<"d0">>, 50),
                           EntityRow("e2", "u1", NameB, "Person", <<"d0">>, 50),
                           [EntityRow("e3", "u1", NameC, "Person", <<"d0">>, 50)
                               EXCEPT !.isDeleted = d]}
          /\ relationships \in SUBSET CandidateRelationships
       \/ /\ entities = FanOutEntities
          /\ relationships = FanOutRelationships
    /\ trav = IdleTraversal

\* POST /api/graphrag/retrieve: hybridAuth attaches the caller's context,
\* blockRapidApi rejects a RapidAPI caller, and the controller passes the
\* userId of the request body to GraphRAGService.retrieve
RetrieveRequest(caller, userId, anchorEntityIds, graphDepth) ==
    /\ source[caller] # "RAPIDAPI"
    /\ StartRetrieve(userId, anchorEntityIds, graphDepth)

\* the graphs of two tenants, A -> B of u1 and C -> D of u2
TenantEntities ==
    {EntityRow("e1", "u1", NameA, "Person", <<"d0">>, 50),
     EntityRow("e2", "u1", NameB, "Person", <<"d0">>, 50),
     EntityRow("g1", "u2", NameC, "Person", <<"d0">>, 50),
     EntityRow("g2", "u2", NameD, "Person", <<"d0">>, 50)}

TenantRelationships ==
    {RelationshipRow("r1", "u1", "e1", "e2", "knows"),
     RelationshipRow("r6", "u2", "g1", "g2", "knows")}

\* two authenticated tenants of either lane, each with its own graph
IsolationInit ==
    /\ redisBalance = [u \in Users |-> None]
    /\ creditsBalance = [u \in Users |-> None]
    /\ tier = [u \in Users |-> "FREE"]
    /\ source \in [Users -> Sources]
    /\ stripeCustomerId = [u \in Users |-> FALSE]
    /\ pendingSync = {}
    /\ invoices = <<>>
    /\ call = [p \in Procs |-> IdleCall]
    /\ hist = InitHist
    /\ entities = TenantEntities
    /\ relationships \in SUBSET TenantRelationships
    /\ trav = IdleTraversal

\* requests to the retrieval endpoint, by any caller for any userId
IsolationNext ==
    \/ \E caller \in Users, u \in Users, a \in SUBSET {"e1", "e2", "g1", "g2"},
          d \in GraphDepths : RetrieveRequest(caller, u, a, d)
    \/ RecursiveStep
    \/ FinalSelect

TraversalNext ==
    \/ \E u \in Users, a \in SUBSET {"e1", "e2", "e3"}, d \in GraphDepths :
          StartRetrieve(u, a, d)
    \/ RecursiveStep
    \/ FinalSelect

----------------------------------------------------------------------------
(* ConsolidationService.consolidateUser: the record of one call            *)

\* the calls of consolidateUser the model follows
Runs == 1..NumRuns

\* no ConsolidationResult yet
NoRunResult ==
    [kind |-> "none", memoriesProcessed |-> 0, entitiesUpdated |-> 0, cost |-> 0,
     skipped |-> FALSE, reason |-> ""]

\* { memoriesProcessed: 0, entitiesUpdated: 0, coreFacts: [], cost: 0,
\*   skipped: true, reason }
SkippedResult(reason) ==
    [NoRunResult EXCEPT !.kind = "return", !.skipped = TRUE, !.reason = reason]

IdleRun ==
    [pc |-> "idle", userId |-> "", userContext |-> IdleCall.ctx, after |-> {},
     batch |-> {}, estimatedCost |-> 0, coreFacts |-> <<>>, next |-> 1,
     entity |-> None, entitiesUpdated |-> 0, marked |-> FALSE, charged |-> 0,
     extractFailed |-> FALSE, result |-> NoRunResult]

\* the calls of consolidateAllUsers the model follows
Batches == 1..NumBatches

\* consolidateAllUsers locals: usersWithMemories, those still to visit, the
\* consolidateUser call awaited, results with the userId of each
IdleBatch == [pc |-> "idle", usersWithMemories |-> {}, users |-> {}, run |-> 0,
              results |-> <<>>, userIds |-> <<>>]

\* testAsyncMemoryPipeline before its first request
IdleScript == [pc |-> "start", balanceRes |-> 0, jobId |-> <<>>, jobCompleted |-> FALSE,
               cost |-> 0, finalBalance |-> 0]

----------------------------------------------------------------------------
(* Ingestion: AsyncMemoryController.addMemory, the memory-processing queue  *)
(* and MemoryWorker.processJob                                              *)

\* what the extraction provider returns for a statement
Extracted(name, type, description) ==
    [name |-> name, type |-> type, description |-> description]

extractGraph(text) ==
    CASE text = "t2" ->
           [entities |-> <<Extracted(NameA, "Person", <<"d2">>),
                           Extracted(NameB, "Person", <<"d2">>)>>,
            relationships |-> <<[from |-> NameA, to |-> NameB, predicate |-> "knows"]>>]
      [] OTHER ->
           [entities |-> <<Extracted(NameB, "Person", <<"d3">>),
                           Extracted(NameA, "Person", <<"d3">>),
                           Extracted(NameB, "Person", <<"d3b">>)>>,
            relationships |-> <<[from |-> NameB, to |-> NameA, predicate |-> "knows"],
                                [from |-> NameB, to |-> NameA, predicate |-> "knows"]>>]

Texts == {"t2", "t3"}

\* Math.ceil(text.length / 4)
EstimatedTokens(text) == IF text = "t2" THEN 5 ELSE 6

\* the requests of the model: a statement, with graph extraction left on or
\* switched off
Statements ==
    {[text |-> t, enableGraphExtraction |-> TRUE] : t \in Texts}

\* `${userId}-${Date.now()}`
JobId(u, t) == <<u, t>>

\* gen_random_uuid(): the row written by statement idx of attempt n of a job
FreshId(jobId, n, idx) == <<jobId[1], jobId[2], n, idx>>

EntityKey(u, name, type) == <<u, name, type>>
KeyOf(e) == EntityKey(e.userId, e.name, e.type)

\* every jobId the queue can hold, and the slot of a jobId it does not hold
AllJobIds == Users \X (1..MaxTime)

NoJob ==
    [userId |-> "", text |-> "", enableGraphExtraction |-> FALSE,
     userContext |-> IdleCall.ctx,
     state |-> "absent", attemptsMade |-> 0, delay |-> 0, pc |-> "none",
     allowBackgroundJobs |-> FALSE,
     entities |-> <<>>, relationships |-> <<>>,
     next |-> 1, entityMap |-> {}, txEntities |-> {},
     failedReason |-> "", returnvalue |-> None]

\* job.data and the job's bookkeeping as queue.add creates it
NewJob(u, st) ==
    [NoJob EXCEPT !.userId = u, !.text = st.text,
                  !.enableGraphExtraction = st.enableGraphExtraction,
                  !.userContext = Context(u), !.state = "waiting"]

JobIds == {id \in AllJobIds : jobs[id].state # "absent"}

\* the latest Date.now() a job was submitted at
LatestTime ==
    IF JobIds = {} THEN 1
    ELSE CHOOSE t \in 1..MaxTime :
           /\ \E id \in JobIds : id[2] = t
           /\ \A id \in JobIds : id[2] <= t

\* addMemory: memoryProcessingQueue.add with jobId userId-now; the queue
\* ignores an add whose jobId it already holds and returns the job it has
Submit(u, st, t) ==
    /\ Cardinality(JobIds) < MaxJobs
    /\ t \in (IF JobIds = {} THEN {1} ELSE {LatestTime, LatestTime + 1}) /\ t <= MaxTime
    /\ IF JobId(u, t) \in JobIds
       THEN UNCHANGED jobs
       ELSE jobs' = [jobs EXCEPT ![JobId(u, t)] = NewJob(u, st)]
    /\ UNCHANGED <<guardVars, graphVars, memories, runs, batches, serviceBalance>>

\* Math.round(Math.pow(2, attemptsMade - 1) * delay)
BackoffDelay(attemptsMade) == (2 ^ (attemptsMade - 1)) * BACKOFF_DELAY

\* attempts read as the number of retries after the first attempt
AttemptsAsRetries == JOB_ATTEMPTS + 1

\* the attempts the queue gives a job before it marks it failed
MaxAttempts == JOB_ATTEMPTS

\* processJob threw: the queue counts the attempt, and either delays the job
\* for its backoff or, with the attempts used up, marks it failed
AttemptFailed(job, reason) ==
    LET made == job.attemptsMade
        reset == [job EXCEPT !.pc = "none",
                             !.allowBackgroundJobs = FALSE,
                             !.entities = <<>>, !.relationships = <<>>, !.next = 1,
                             !.entityMap = {}, !.txEntities = {},
                             !.failedReason = reason]
    IN  IF made < MaxAttempts
        THEN [reset EXCEPT !.state = "delayed", !.delay = BackoffDelay(made)]
        ELSE [reset EXCEPT !.state = "failed", !.delay = 0]

ActiveJobs == {id \in JobIds : jobs[id].state = "active"}

\* a free worker slot takes a waiting job
StartAttempt(id) ==
    /\ jobs[id].state = "waiting"
    /\ Cardinality(ActiveJobs) < WORKER_CONCURRENCY
    /\ jobs' = [jobs EXCEPT ![id].state = "active", ![id].pc = "check",
                            ![id].attemptsMade = @ + 1]
    /\ UNCHANGED <<guardVars, graphVars, memories, runs, batches, scriptVars>>

\* the backoff delay of a delayed job has passed
BackoffElapses(id) ==
    /\ jobs[id].state = "delayed"
    /\ jobs' = [jobs EXCEPT ![id].state = "waiting", ![id].delay = 0]
    /\ UNCHANGED <<guardVars, graphVars, memories, runs, batches, scriptVars>>

willExtractGraph(job) ==
    job.enableGraphExtraction /\ job.userContext.source = "DIRECT"

\* the access check moved behind the writes: nothing is checked in STEP A and
\* a denial is raised once the transaction has committed
JobCheckAccessLate(id) ==
    LET job == jobs[id]
        r == DirectResult(Balance(job.userId), job.userContext,
                          calculateEstimatedCost(EstimatedTokens(job.text), TRUE,
                                                 willExtractGraph(job)))
    IN  /\ job.state = "active"
        /\ \/ /\ job.pc = "check"
              /\ jobs' = [jobs EXCEPT ![id].pc = "embed",
                                      ![id].allowBackgroundJobs = TRUE]
           \/ /\ job.pc = "deduct" /\ r.kind = "throw"
              /\ jobs' = [jobs EXCEPT ![id] = AttemptFailed(job, r.code)]
        /\ UNCHANGED <<guardVars, graphVars, memories, runs, batches, scriptVars>>

\* STEP A: calculateEstimatedCost and CostGuard.checkAccess
JobCheckAccess(id) ==
    LET job == jobs[id]
        u == job.userId
        estimatedCost == calculateEstimatedCost(EstimatedTokens(job.text), TRUE,
                                                willExtractGraph(job))
        balance == Balance(u)
        r == IF job.userContext.source = "RAPIDAPI" THEN RapidApiResult
             ELSE DirectResult(balance, job.userContext, estimatedCost)
        direct == job.userContext.source = "DIRECT"
    IN  /\ job.state = "active" /\ job.pc = "check"
        /\ redisBalance' =
             IF direct /\ IsNone(redisBalance[u]) /\ ~IsNone(creditsBalance[u])
             THEN [redisBalance EXCEPT ![u] = creditsBalance[u]]
             ELSE redisBalance
        /\ IF direct /\ CheckTriggersInvoice(balance, job.userContext, estimatedCost)
           THEN triggerStripeInvoice(u, r.shortfall)
           ELSE UNCHANGED <<stripeCustomerId, invoices>>
        /\ jobs' = [jobs EXCEPT ![id] =
                      IF r.kind = "throw" THEN AttemptFailed(job, r.code)
                      ELSE IF ~r.allowed THEN AttemptFailed(job, "ACCESS_DENIED")
                      ELSE [job EXCEPT !.pc = "embed",
                                       !.allowBackgroundJobs = r.allowBackgroundJobs]]
        /\ UNCHANGED <<creditsBalance, tier, source, pendingSync, call, hist,
                       graphVars, memories, runs, batches, scriptVars>>

\* STEP B and STEP C with the extraction run for every job
JobExtractAlways(id) ==
    /\ jobs[id].state = "active" /\ jobs[id].pc = "embed"
    /\ jobs' = [jobs EXCEPT
                  ![id].pc = "memory",
                  ![id].entities = extractGraph(jobs[id].text).entities,
                  ![id].relationships = extractGraph(jobs[id].text).relationships]
    /\ UNCHANGED <<guardVars, graphVars, memories, runs, batches, scriptVars>>

\* STEP B and STEP C: embeddingProvider.generateEmbedding(text), then
\* graphExtractor.extractGraph(text) for a DIRECT tenant with background jobs
\* allowed
JobEmbedAndExtract(id) ==
    LET job == jobs[id]
        run == willExtractGraph(job) /\ job.allowBackgroundJobs
    IN  /\ job.state = "active" /\ job.pc = "embed"
        /\ jobs' = [jobs EXCEPT
                      ![id].pc = "memory",
                      ![id].entities = IF run THEN extractGraph(job.text).entities ELSE <<>>,
                      ![id].relationships =
                          IF run THEN extractGraph(job.text).relationships ELSE <<>>]
        /\ UNCHANGED <<guardVars, graphVars, memories, runs, batches, scriptVars>>

\* the embedding or the extraction provider fails
ProviderFails(id) ==
    /\ jobs[id].state = "active" /\ jobs[id].pc = "embed"
    /\ jobs' = [jobs EXCEPT ![id] = AttemptFailed(jobs[id], "PROVIDER_ERROR")]
    /\ UNCHANGED <<guardVars, graphVars, memories, runs, batches, scriptVars>>

\* the Memory row inserted through the plain client, outside the transaction
InsertMemoryDirect(id) ==
    /\ jobs[id].state = "active" /\ jobs[id].pc = "memory"
    /\ jobs' = [jobs EXCEPT ![id].pc = IF jobs[id].entities = <<>> THEN "commit"
                                       ELSE "entities",
                            ![id].next = 1]
    /\ memories' = memories \cup
                      {[id |-> FreshId(id, jobs[id].attemptsMade, 0), userId |-> jobs[id].userId,
                        text |-> jobs[id].text, createdAt |-> id[2],
                        isConsolidated |-> FALSE, isDeleted |-> FALSE]}
    /\ UNCHANGED <<guardVars, graphVars, runs, batches, scriptVars>>

\* STEP D.1: prisma.$transaction begins, INSERT INTO "Memory"
TxInsertMemory(id) ==
    /\ jobs[id].state = "active" /\ jobs[id].pc = "memory"
    /\ jobs' = [jobs EXCEPT ![id].pc = IF jobs[id].entities = <<>> THEN "commit"
                                       ELSE "entities",
                            ![id].next = 1]
    /\ UNCHANGED <<guardVars, graphVars, memories, runs, batches, scriptVars>>

\* the Entity row, if any, that ON CONFLICT ("userId", name, type) finds
Conflicting(key) == {e \in entities : KeyOf(e) = key}

\* another open transaction has written the row of this key and holds its lock
LockedByOther(id, key) ==
    \E k \in JobIds \ {id} : \E w \in jobs[k].txEntities : w.key = key

\* a plain INSERT in place of the upsert
StagedInsert(job, id, key, data) ==
    [key |-> key, id |-> FreshId(id, job.attemptsMade, job.next), inserted |-> TRUE,
     description |-> data.description]

\* INSERT ... ON CONFLICT ("userId", name, type) DO UPDATE SET description,
\* embedding ... RETURNING id: the row this statement leaves in the transaction
StagedUpsert(job, id, key, data) ==
    IF \E w \in job.txEntities : w.key = key
    THEN [(CHOOSE w \in job.txEntities : w.key = key)
             EXCEPT !.description = data.description]
    ELSE IF Conflicting(key) # {}
    THEN [key |-> key, id |-> (CHOOSE e \in Conflicting(key) : TRUE).id,
          inserted |-> FALSE, description |-> data.description]
    ELSE [key |-> key, id |-> FreshId(id, job.attemptsMade, job.next),
          inserted |-> TRUE, description |-> data.description]

\* entityMap.set(name, id) and entityMap.get(name)
MapSet(map, name, id) == {m \in map : m.name # name} \cup {[name |-> name, id |-> id]}
MapHas(map, name) == \E m \in map : m.name = name
MapGet(map, name) == (CHOOSE m \in map : m.name = name).id

\* STEP D.2, one entity: its embedding, then the upsert; the statement waits
\* while another transaction holds the row of the same key
TxUpsertEntity(id) ==
    LET job == jobs[id]
        data == job.entities[job.next]
        key == EntityKey(job.userId, data.name, data.type)
        row == StagedUpsert(job, id, key, data)
    IN  /\ job.state = "active" /\ job.pc = "entities"
        /\ ~LockedByOther(id, key)
        /\ jobs' = [jobs EXCEPT
                      ![id].txEntities = {w \in job.txEntities : w.key # key} \cup {row},
                      ![id].entityMap = MapSet(job.entityMap, data.name, row.id),
                      ![id].next = job.next + 1,
                      ![id].pc = IF job.next = Len(job.entities) THEN "commit"
                                 ELSE "entities"]
        /\ UNCHANGED <<guardVars, graphVars, memories, runs, batches, scriptVars>>

\* the unique key of a Relationship row
RelationshipKey(r) == <<r.userId, r.fromEntityId, r.toEntityId, r.predicate>>

\* tx.relationship.create in place of the upsert
RelationshipCreate(stored, row) == stored \cup {row}

\* tx.relationship.upsert: a row with the unique key is updated (confidence,
\* updatedAt), otherwise the row is created
RelationshipUpsert(stored, row) ==
    IF \E r \in stored : RelationshipKey(r) = RelationshipKey(row) THEN stored
    ELSE stored \cup {row}

\* STEP D.3: the loop over the extracted relationships from the i-th on; one
\* whose from or to name is not in entityMap is skipped
RECURSIVE UpsertRelationships(_, _, _, _)
UpsertRelationships(stored, job, id, i) ==
    IF i > Len(job.relationships) THEN stored
    ELSE LET relData == job.relationships[i]
         IN  IF MapHas(job.entityMap, relData.from) /\ MapHas(job.entityMap, relData.to)
             THEN UpsertRelationships(
                      RelationshipUpsert(
                          stored,
                          RelationshipRow(FreshId(id, job.attemptsMade, 10 + i), job.userId,
                                          MapGet(job.entityMap, relData.from),
                                          MapGet(job.entityMap, relData.to),
                                          relData.predicate)),
                      job, id, i + 1)
             ELSE UpsertRelationships(stored, job, id, i + 1)

\* the Entity table after the transaction's writes
CommittedEntities(job) ==
    {IF \E w \in job.txEntities : w.key = KeyOf(e)
     THEN LET w == CHOOSE x \in job.txEntities : x.key = KeyOf(e)
          IN  [e EXCEPT !.description = w.description, !.embedding = w.description]
     ELSE e : e \in entities}
    \cup {EntityRow(w.id, w.key[1], w.key[2], w.key[3], w.description,
                    DEFAULT_IMPORTANCE) :
            w \in {x \in job.txEntities : x.inserted}}

\* a Memory row
MemoryRow(id, u, text, createdAt) ==
    [id |-> id, userId |-> u, text |-> text, createdAt |-> createdAt,
     isConsolidated |-> FALSE, isDeleted |-> FALSE]

\* STEP D.3 and the end of STEP D: the relationship upserts (a transaction
\* reaches them holding the rows of both entities, so no other open
\* transaction can hold the same relationship), then the commit: the rows of
\* the transaction become visible together
TxCommit(id) ==
    LET job == jobs[id]
        memoryId == FreshId(id, job.attemptsMade, 0)
    IN  /\ job.state = "active" /\ job.pc = "commit"
        /\ memories' = memories \cup {MemoryRow(memoryId, job.userId, job.text, id[2])}
        /\ entities' = CommittedEntities(job)
        /\ relationships' = UpsertRelationships(relationships, job, id, 1)
        /\ jobs' = [jobs EXCEPT ![id].pc = "deduct", ![id].txEntities = {},
                                ![id].returnvalue = Some(memoryId)]
        /\ UNCHANGED <<guardVars, trav, runs, batches, scriptVars>>

\* a statement of the transaction fails (the embedding of an entity, a store
\* error, the transaction timeout, a deadlock the store detects): the
\* transaction rolls back and processJob throws
TxFails(id) ==
    /\ jobs[id].state = "active"
    /\ jobs[id].pc \in {"memory", "entities", "commit"}
    /\ jobs' = [jobs EXCEPT ![id] = AttemptFailed(jobs[id], "TRANSACTION_FAILED")]
    /\ UNCHANGED <<guardVars, graphVars, memories, runs, batches, scriptVars>>

\* STEP E: the actual cost, which is also the cost of the job's return value
ActualCost(job) ==
    calculateEstimatedCost(EstimatedTokens(job.text) + 100, TRUE, willExtractGraph(job))

\* STEP E without the try/catch: the error of deduct leaves processJob
JobDeductThrows(id) ==
    LET job == jobs[id]
    IN  /\ job.state = "active" /\ job.pc = "deduct"
        /\ jobs' = [jobs EXCEPT ![id] =
                      IF job.userContext.source = "DIRECT" /\ ~IsInteger(ActualCost(job))
                      THEN AttemptFailed(job, "DEDUCTION_FAILED")
                      ELSE [job EXCEPT !.state = "completed", !.pc = "none"]]
        /\ UNCHANGED <<guardVars, graphVars, memories, runs, batches, scriptVars>>

\* STEP E: CostGuard.deduct of the actual cost, its error caught and logged;
\* processJob returns and the queue marks the job completed
JobDeduct(id) ==
    LET job == jobs[id]
        u == job.userId
        actualCost == ActualCost(job)
        newBalance == DeductNewBalance(redisBalance[u], job.userContext, actualCost)
        charged == job.userContext.source = "DIRECT" /\ IsInteger(actualCost)
        invoice == /\ newBalance < MaxNegativeBalance(job.userContext.tier)
                   /\ TriggerInvoice(job.userContext.tier)
    IN  /\ job.state = "active" /\ job.pc = "deduct"
        /\ IF charged
           THEN /\ redisBalance' = [redisBalance EXCEPT ![u] = Some(newBalance)]
                /\ pendingSync' = pendingSync \cup {[userId |-> u, balance |-> newBalance]}
                /\ IF invoice THEN triggerStripeInvoice(u, Abs(newBalance) * Scale)
                   ELSE UNCHANGED <<stripeCustomerId, invoices>>
           ELSE UNCHANGED <<redisBalance, pendingSync, stripeCustomerId, invoices>>
        /\ jobs' = [jobs EXCEPT ![id].state = "completed", ![id].pc = "none"]
        /\ UNCHANGED <<creditsBalance, tier, source, call, hist, graphVars, memories, runs, batches, scriptVars>>

\* await job.updateProgress(80), after the transaction has committed and outside
\* any try/catch: the queue's Redis rejects the command (the job key is gone,
\* the server answers with an error) and processJob throws
ProgressFails(id) ==
    /\ jobs[id].state = "active" /\ jobs[id].pc = "deduct"
    /\ jobs' = [jobs EXCEPT ![id] = AttemptFailed(jobs[id], "PROGRESS_FAILED")]
    /\ UNCHANGED <<guardVars, graphVars, memories, runs, batches, scriptVars>>

\* getJobStatus: queue.getJob, job.getState
getJobStatus(jobId) ==
    IF jobId \notin JobIds  
    THEN [found |-> FALSE, state |-> "", result |-> None, error |-> "JOB_NOT_FOUND"]
    ELSE [found |-> TRUE, state |-> jobs[jobId].state,
          result |-> IF jobs[jobId].state = "completed" THEN jobs[jobId].returnvalue
                     ELSE None,
          error |-> jobs[jobId].failedReason]

JobSteps ==
    \/ \E id \in JobIds : StartAttempt(id)
    \/ \E id \in JobIds : BackoffElapses(id)
    \/ \E id \in JobIds : JobCheckAccess(id)
    \/ \E id \in JobIds : JobEmbedAndExtract(id)
    \/ \E id \in JobIds : ProviderFails(id)
    \/ \E id \in JobIds : TxInsertMemory(id)
    \/ \E id \in JobIds : TxUpsertEntity(id)
    \/ \E id \in JobIds : TxCommit(id)
    \/ \E id \in JobIds : TxFails(id)
    \/ \E id \in JobIds : JobDeduct(id)

\* POST /api/memory/add by a tenant
AddMemory(u, st, t) ==
    /\ Submit(u, st, t)
    /\ UNCHANGED script

IngestNext ==
    \/ \E u \in Users, st \in Statements, t \in 1..MaxTime : AddMemory(u, st, t)
    \/ JobSteps

\* ingestion for one tenant with a queue store that may reject a progress update
RedeliveryNext ==
    \/ \E st \in Statements, t \in 1..MaxTime : AddMemory("u1", st, t)
    \/ JobSteps
    \/ \E id \in JobIds : ProgressFails(id)

\* two DIRECT HOBBY tenants with their balance in Redis, the second one with
\* or without credit; an empty graph or one that holds entity A of tenant u1
IngestInit ==
    /\ tier = [u \in Users |-> "HOBBY"]
    /\ source = [u \in Users |-> "DIRECT"]
    /\ \E b \in {0, 100} :
         /\ redisBalance = [u \in Users |-> IF u = "u1" THEN Some(100) ELSE Some(b)]
         /\ creditsBalance = [u \in Users |-> IF u = "u1" THEN Some(100) ELSE Some(b)]
    /\ stripeCustomerId = [u \in Users |-> FALSE]
    /\ pendingSync = {}
    /\ invoices = <<>>
    /\ call = [p \in Procs |-> IdleCall]
    /\ hist = InitHist
    /\ entities \in {{}, {EntityRow(<<"u1", 0, 0, 1>>, "u1", NameA, "Person", <<"d0">>,
                                    80)}}
    /\ relationships = {}
    /\ trav = IdleTraversal
    /\ memories = {}
    /\ jobs = [id \in AllJobIds |-> NoJob]
    /\ runs = [r \in Runs |-> IdleRun]
    /\ batches = [d \in Batches |-> IdleBatch]
    /\ serviceBalance = [u \in Users |-> None]
    /\ script = IdleScript

\* the requests of either lane: enableGraphExtraction left out (true) or false
LaneStatements ==
    {[text |-> t, enableGraphExtraction |-> e] : t \in Texts, e \in BOOLEAN}

\* tenant u1 as a DIRECT tenant with credit, or as getOrCreateRapidApiUser
\* creates a RapidAPI tenant (billing row HOBBY with creditsBalance 0)
LaneTenants ==
    {[source |-> "DIRECT", redis |-> Some(100), ledger |-> Some(100)],
     [source |-> "RAPIDAPI", redis |-> None, ledger |-> Some(0)]}

LaneIngestInit ==
    /\ tier = [u \in Users |-> "HOBBY"]
    /\ \E t \in LaneTenants :
         /\ source = [u \in Users |-> IF u = "u1" THEN t.source ELSE "DIRECT"]
         /\ redisBalance = [u \in Users |-> IF u = "u1" THEN t.redis ELSE Some(100)]
         /\ creditsBalance = [u \in Users |-> IF u = "u1" THEN t.ledger ELSE Some(100)]
    /\ stripeCustomerId = [u \in Users |-> FALSE]
    /\ pendingSync = {}
    /\ invoices = <<>>
    /\ call = [p \in Procs |-> IdleCall]
    /\ hist = InitHist
    /\ entities \in {{}, {EntityRow(<<"u1", 0, 0, 1>>, "u1", NameA, "Person", <<"d0">>,
                                    80)}}
    /\ relationships = {}
    /\ trav = IdleTraversal
    /\ memories = {}
    /\ jobs = [id \in AllJobIds |-> NoJob]
    /\ runs = [r \in Runs |-> IdleRun]
    /\ batches = [d \in Batches |-> IdleBatch]
    /\ serviceBalance = [u \in Users |-> None]
    /\ script = IdleScript

\* the jobs of tenant u1, of either lane, with the extraction on or off
LaneIngestNext ==
    \/ \E st \in LaneStatements, t \in 1..MaxTime : AddMemory("u1", st, t)
    \/ JobSteps

----------------------------------------------------------------------------
(* Billing endpoints (CostGuardService) and scripts/test_async_pipeline.ts *)

\* TEST_USER_ID
TestUser == "u1"

\* CostGuardService.getBalance: redis.get of user:balance:<id>, 0 for no key
ServiceGetBalance(u) == IF IsNone(serviceBalance[u]) THEN 0 ELSE Get(serviceBalance[u])

\* step 1: POST /billing/set-balance, CostGuardService.setBalance
SetBalanceStep ==
    /\ script.pc = "start"
    /\ serviceBalance' = [serviceBalance EXCEPT ![TestUser] = Some(TEST_BALANCE)]
    /\ script' = [script EXCEPT !.pc = "balance"]
    /\ UNCHANGED <<guardVars, graphVars, workVars>>

\* step 2: GET /billing/balance/:userId
CheckBalanceStep ==
    /\ script.pc = "balance"
    /\ script' = [script EXCEPT !.pc = "add", !.balanceRes = ServiceGetBalance(TestUser)]
    /\ UNCHANGED <<guardVars, graphVars, workVars, serviceBalance>>

\* step 3: POST /memory/add, the jobId of the response kept
AddMemoryStep ==
    /\ script.pc = "add"
    /\ \E st \in Statements, t \in 1..MaxTime :
         /\ Submit(TestUser, st, t)
         /\ script' = [script EXCEPT !.pc = "poll", !.jobId = JobId(TestUser, t)]

\* step 4: GET /memory/job/:jobId until the job is completed or failed, or
\* the attempts of the loop are used up
PollStep ==
    LET status == getJobStatus(script.jobId)
        completed == status.state = "completed"
    IN  /\ script.pc = "poll"
        /\ script' = [script EXCEPT
                         !.pc = "final",
                         !.jobCompleted = completed,
                         !.cost = IF completed THEN ActualCost(jobs[script.jobId]) ELSE 0]
        /\ UNCHANGED <<guardVars, graphVars, workVars, serviceBalance>>

\* step 5: GET /billing/balance/:userId again
FinalBalanceStep ==
    /\ script.pc = "final"
    /\ script' = [script EXCEPT !.pc = "done", !.finalBalance = ServiceGetBalance(TestUser)]
    /\ UNCHANGED <<guardVars, graphVars, workVars, serviceBalance>>

\* the script against the running worker
PipelineNext ==
    \/ SetBalanceStep
    \/ CheckBalanceStep
    \/ AddMemoryStep
    \/ PollStep
    \/ FinalBalanceStep
    \/ JobSteps

----------------------------------------------------------------------------
(* ConsolidationService                                                     *)

\* new Date(): the clock of a consolidation cycle, in minutes
Now == 0

\* cutoffDate: now minus CONSOLIDATION_WINDOW_HOURS
CutoffDate == Now - CONSOLIDATION_WINDOW_HOURS * 60

\* the where clause without the isConsolidated filter
UnconsolidatedOrNot(u) ==
    {m \in memories : m.userId = u /\ ~m.isDeleted /\ m.createdAt >= CutoffDate}

\* where { userId, isConsolidated: false, isDeleted: false, createdAt >= cutoff }
Unconsolidated(u) ==
    {m \in memories : /\ m.userId = u /\ ~m.isConsolidated /\ ~m.isDeleted
                      /\ m.createdAt >= CutoffDate}

\* orderBy createdAt desc, take MAX_MEMORIES_PER_BATCH: every result the
\* store may give (rows of equal createdAt are cut in an unspecified way)
RECURSIVE Take(_)
Take(rows) ==
    IF Cardinality(rows) <= MAX_MEMORIES_PER_BATCH THEN {rows}
    ELSE UNION {Take(rows \ {m}) :
                  m \in {x \in rows : \A y \in rows : x.createdAt <= y.createdAt}}

\* the query without its take
fetchWithoutTake(u) == {Unconsolidated(u)}

\* fetchUnconsolidatedMemories(userId)
fetchUnconsolidatedMemories(u) == Take(Unconsolidated(u))

\* a core fact the summarization provider returns; confidence in hundredths
CoreFact(name, type, fact, confidence) ==
    [entityName |-> name, entityType |-> type, fact |-> fact, confidence |-> confidence]

\* the answers of the provider in the model: none (or an error, which
\* extractCoreFacts turns into none), a sure fact about A, a weak fact about A
\* with a fact about an entity that is not stored
FactLists ==
    {<<>>,
     <<CoreFact(NameA, "Person", "f1", 100)>>,
     <<CoreFact(NameA, "Person", "f2", 50), CoreFact(NameC, "Person", "f1", 100)>>}

\* fact.confidence * 0.8, on the importance scale (hundredths)
ConfidenceImportance(confidence) == (confidence * 8) \div 10

\* mergeDescriptions(current, newFact); a description is the sequence of its
\* sentences
mergeDescriptions(current, newFact) ==
    IF current = <<>> THEN <<newFact>>
    ELSE IF newFact \in Elements(current) THEN current
    ELSE Append(current, newFact)

\* the call has returned or thrown
Returned(r) == runs[r].pc = "done"

\* consolidateUser(userId), called by the batch driver or by the manual
\* trigger: prisma.user.findUnique with the billing row, the user context
StartConsolidateUser(r, u) ==
    /\ runs[r].pc = "idle"
    /\ \A q \in Runs : q < r => runs[q].pc # "idle"
    /\ runs' = [runs EXCEPT ![r] =
                  IF IsNone(creditsBalance[u])
                  THEN [IdleRun EXCEPT !.pc = "done", !.userId = u,
                                       !.after = {q \in Runs : Returned(q)},
                                       !.result = SkippedResult("User or billing info not found")]
                  ELSE [IdleRun EXCEPT !.pc = "fetch", !.userId = u,
                                       !.after = {q \in Runs : Returned(q)},
                                       !.userContext =
                                           [userId |-> u, source |-> "DIRECT",
                                            tier |-> tier[u],
                                            balance |-> Get(creditsBalance[u])]]]
    /\ UNCHANGED <<guardVars, graphVars, memories, jobs, scriptVars>>

\* fetchUnconsolidatedMemories, the minimum check and the cost estimate
FetchMemories(r) ==
    /\ runs[r].pc = "fetch"
    /\ \E rows \in fetchUnconsolidatedMemories(runs[r].userId) :
         runs' = [runs EXCEPT ![r] =
                    IF Cardinality(rows) < MIN_MEMORIES_FOR_CONSOLIDATION
                    THEN [@ EXCEPT !.pc = "done",
                                   !.result = SkippedResult("Only n unconsolidated memories")]
                    ELSE [@ EXCEPT !.pc = "check",
                                   !.batch = {m.id : m \in rows},
                                   !.estimatedCost =
                                       calculateEstimatedCost(
                                           Cardinality(rows) * ESTIMATED_TOKENS_PER_MEMORY,
                                           FALSE, TRUE)]]
    /\ UNCHANGED <<guardVars, graphVars, memories, jobs, batches, scriptVars>>

\* the pre-flight check with its outcome ignored: the run always goes on
ConsolidationCheckIgnored(r) ==
    /\ runs[r].pc = "check"
    /\ runs' = [runs EXCEPT ![r].pc = "extract"]
    /\ UNCHANGED <<guardVars, graphVars, memories, jobs, batches, scriptVars>>

\* the pre-flight CostGuard.checkAccess; a denial is caught and skips the run
ConsolidationCheckAccess(r) ==
    LET run == runs[r]
        u == run.userId
        balance == Balance(u)
        res == IF run.userContext.source = "RAPIDAPI" THEN RapidApiResult
               ELSE DirectResult(balance, run.userContext, run.estimatedCost)
    IN  /\ run.pc = "check"
        /\ redisBalance' =
             IF IsNone(redisBalance[u]) /\ ~IsNone(creditsBalance[u])
             THEN [redisBalance EXCEPT ![u] = creditsBalance[u]]
             ELSE redisBalance
        /\ IF CheckTriggersInvoice(balance, run.userContext, run.estimatedCost)
           THEN triggerStripeInvoice(u, res.shortfall)
           ELSE UNCHANGED <<stripeCustomerId, invoices>>
        /\ runs' = [runs EXCEPT ![r] =
                      IF res.kind = "throw"
                      THEN [@ EXCEPT !.pc = "done",
                                     !.result = SkippedResult("Cost check failed")]
                      ELSE IF ~res.allowed \/ ~res.allowBackgroundJobs
                      THEN [@ EXCEPT !.pc = "done",
                                     !.result = SkippedResult(
                                         "Insufficient credits or background jobs disabled")]
                      ELSE [@ EXCEPT !.pc = "extract"]]
        /\ UNCHANGED <<creditsBalance, tier, source, pendingSync, call, hist,
                       graphVars, memories, jobs, batches, scriptVars>>

\* extractCoreFacts: the provider's answer (a provider error gives no fact)
ExtractCoreFacts(r, facts) ==
    /\ runs[r].pc = "extract"
    /\ runs' = [runs EXCEPT ![r].coreFacts = facts, ![r].next = 1,
                            ![r].pc = IF facts = <<>> THEN "mark" ELSE "find"]
    /\ UNCHANGED <<guardVars, graphVars, memories, jobs, batches, scriptVars>>

\* extractCoreFacts when openai.chat.completions.create (or JSON.parse) throws:
\* the catch logs and returns { coreFacts: [], usage: null }
ExtractCoreFactsFails(r) ==
    /\ runs[r].pc = "extract"
    /\ runs' = [runs EXCEPT ![r].coreFacts = <<>>, ![r].next = 1,
                            ![r].extractFailed = TRUE, ![r].pc = "mark"]
    /\ UNCHANGED <<guardVars, graphVars, memories, jobs, batches, scriptVars>>

\* find-or-create in place of findFirst: a fact without a stored entity
\* creates one
FindOrCreateEntity(r) ==
    LET run == runs[r]
        fact == run.coreFacts[run.next]
        found == {e \in entities : /\ e.userId = run.userId /\ e.name = fact.entityName
                                   /\ e.type = fact.entityType /\ ~e.isDeleted}
    IN  /\ run.pc = "find"
        /\ IF found = {}
           THEN /\ entities' = entities \cup
                                  {EntityRow(<<run.userId, 0, 1, run.next>>, run.userId,
                                             fact.entityName, fact.entityType, <<fact.fact>>,
                                             DEFAULT_IMPORTANCE)}
                /\ runs' = [runs EXCEPT ![r].next = @ + 1,
                                        ![r].entitiesUpdated = @ + 1,
                                        ![r].pc = IF run.next = Len(run.coreFacts)
                                                  THEN "mark" ELSE "find"]
           ELSE /\ UNCHANGED entities
                /\ \E e \in found :
                      runs' = [runs EXCEPT ![r].entity = Some(e), ![r].pc = "update"]
        /\ UNCHANGED <<guardVars, relationships, trav, memories, jobs, batches, scriptVars>>

\* applyFactsToEntities, one fact: prisma.entity.findFirst; a fact without a
\* stored entity is dropped
FindEntity(r) ==
    LET run == runs[r]
        fact == run.coreFacts[run.next]
        found == {e \in entities : /\ e.userId = run.userId /\ e.name = fact.entityName
                                   /\ e.type = fact.entityType /\ ~e.isDeleted}
    IN  /\ run.pc = "find"
        /\ IF found = {}
           THEN runs' = [runs EXCEPT ![r].next = @ + 1,
                                     ![r].pc = IF run.next = Len(run.coreFacts)
                                               THEN "mark" ELSE "find"]
           ELSE \E e \in found :
                   runs' = [runs EXCEPT ![r].entity = Some(e), ![r].pc = "update"]
        /\ UNCHANGED <<guardVars, graphVars, memories, jobs, batches, scriptVars>>

\* the importance the update writes, from the row findFirst read
WrittenImportance(entity, fact) ==
    Max(entity.importance, ConfidenceImportance(fact.confidence))

\* applyFactsToEntities, one fact: prisma.entity.update where id, with the
\* description and importance computed from the row findFirst read
UpdateEntity(r) ==
    LET run == runs[r]
        fact == run.coreFacts[run.next]
        read == Get(run.entity)
    IN  /\ run.pc = "update"
        /\ entities' =
             {IF e.id = read.id
              THEN [e EXCEPT !.description = mergeDescriptions(read.description, fact.fact),
                             !.importance = WrittenImportance(read, fact)]
              ELSE e : e \in entities}
        /\ runs' = [runs EXCEPT ![r].entity = None,
                                ![r].entitiesUpdated = @ + 1,
                                ![r].next = @ + 1,
                                ![r].pc = IF run.next = Len(run.coreFacts)
                                          THEN "mark" ELSE "find"]
        /\ UNCHANGED <<guardVars, relationships, trav, memories, jobs, batches, scriptVars>>

\* markAsConsolidated(memories.map(m => m.id)): prisma.memory.updateMany
markAsConsolidated(memoryIds) ==
    {IF m.id \in memoryIds THEN [m EXCEPT !.isConsolidated = TRUE] ELSE m : m \in memories}

\* the MARK step of consolidateUser
MarkAsConsolidated(r) ==
    /\ runs[r].pc = "mark"
    /\ memories' = markAsConsolidated(runs[r].batch)
    /\ runs' = [runs EXCEPT ![r].marked = TRUE, ![r].pc = "deduct"]
    /\ UNCHANGED <<guardVars, graphVars, jobs, batches, scriptVars>>

\* CostGuard.deduct of the actual cost; its error is not caught here, so
\* consolidateUser throws; otherwise the result of the run is returned
ConsolidationDeduct(r) ==
    LET run == runs[r]
        u == run.userId
        actualCost == calculateEstimatedCost(
                          Cardinality(run.batch) * ESTIMATED_TOKENS_PER_MEMORY, FALSE, TRUE)
        newBalance == DeductNewBalance(redisBalance[u], run.userContext, actualCost)
        direct == run.userContext.source = "DIRECT"
        invoice == /\ newBalance < MaxNegativeBalance(run.userContext.tier)
                   /\ TriggerInvoice(run.userContext.tier)
    IN  /\ run.pc = "deduct"
        /\ IF direct /\ IsInteger(actualCost)
           THEN /\ redisBalance' = [redisBalance EXCEPT ![u] = Some(newBalance)]
                /\ pendingSync' = pendingSync \cup {[userId |-> u, balance |-> newBalance]}
                /\ IF invoice THEN triggerStripeInvoice(u, Abs(newBalance) * Scale)
                   ELSE UNCHANGED <<stripeCustomerId, invoices>>
           ELSE UNCHANGED <<redisBalance, pendingSync, stripeCustomerId, invoices>>
        /\ runs' = [runs EXCEPT ![r] =
                      IF direct /\ ~IsInteger(actualCost)
                      THEN [@ EXCEPT !.pc = "done", !.result.kind = "throw",
                                     !.result.reason = "DEDUCTION_FAILED"]
                      ELSE [@ EXCEPT !.pc = "done",
                                     !.charged = IF direct THEN actualCost ELSE 0,
                                     !.result = [kind |-> "return",
                                                 memoriesProcessed |-> Cardinality(run.batch),
                                                 entitiesUpdated |-> run.entitiesUpdated,
                                                 cost |-> actualCost,
                                                 skipped |-> FALSE, reason |-> ""]]]
        /\ UNCHANGED <<creditsBalance, tier, source, call, hist, graphVars, memories, jobs, batches, scriptVars>>

\* consolidateAllUsers(), called by the scheduled task and by the manual
\* trigger without a userId: prisma.memory.groupBy with the having count
StartConsolidateAllUsers(d) ==
    LET usersWithMemories ==
            {u \in Users : Cardinality(Unconsolidated(u)) >= MIN_MEMORIES_FOR_CONSOLIDATION}
    IN  /\ batches[d].pc = "idle"
        /\ \A q \in Batches : q < d => batches[q].pc # "idle"
        /\ batches' = [batches EXCEPT ![d] =
                          [IdleBatch EXCEPT !.pc = IF usersWithMemories = {} THEN "done"
                                                  ELSE "loop",
                                            !.usersWithMemories = usersWithMemories,
                                            !.users = usersWithMemories]]
        /\ UNCHANGED <<guardVars, graphVars, memories, jobs, runs, scriptVars>>

\* the loop of consolidateAllUsers: await this.consolidateUser(userId)
BatchConsolidateUser(d, r, u) ==
    /\ batches[d].pc = "loop" /\ batches[d].run = 0
    /\ u \in batches[d].users
    /\ StartConsolidateUser(r, u)
    /\ batches' = [batches EXCEPT ![d].run = r, ![d].users = @ \ {u}]

\* the loop without its try/catch: an error of consolidateUser ends
\* consolidateAllUsers
BatchCollectOrAbort(d) ==
    LET r == batches[d].run
    IN  /\ batches[d].pc = "loop" /\ r # 0
        /\ Returned(r)
        /\ batches' = [batches EXCEPT
                          ![d] = IF runs[r].result.kind = "throw"
                                 THEN [@ EXCEPT !.run = 0, !.pc = "done"]
                                 ELSE [@ EXCEPT !.results = Append(@, runs[r].result),
                                                !.userIds = Append(@, runs[r].userId),
                                                !.run = 0,
                                                !.pc = IF batches[d].users = {} THEN "done"
                                                       ELSE "loop"]]
        /\ UNCHANGED <<guardVars, graphVars, memories, jobs, runs, scriptVars>>

\* the awaited consolidateUser returned or threw: results.push, with the
\* skipped result built in the catch for an error; the loop goes on or
\* consolidateAllUsers returns
BatchCollect(d) ==
    LET r == batches[d].run
        result == IF runs[r].result.kind = "throw"
                  THEN SkippedResult(runs[r].result.reason)
                  ELSE runs[r].result
    IN  /\ batches[d].pc = "loop" /\ r # 0
        /\ Returned(r)
        /\ batches' = [batches EXCEPT
                          ![d].results = Append(@, result),
                          ![d].userIds = Append(@, runs[r].userId),
                          ![d].run = 0,
                          ![d].pc = IF batches[d].users = {} THEN "done" ELSE "loop"]
        /\ UNCHANGED <<guardVars, graphVars, memories, jobs, runs, scriptVars>>

\* the manual trigger with a userId: consolidateUser(data.userId)
TriggerConsolidateUser(r, u) ==
    /\ StartConsolidateUser(r, u)
    /\ UNCHANGED batches

ConsolidationNext ==
    \/ \E r \in Runs, u \in GuardUsers : TriggerConsolidateUser(r, u)
    \/ \E d \in Batches : StartConsolidateAllUsers(d)
    \/ \E d \in Batches, r \in Runs, u \in Users : BatchConsolidateUser(d, r, u)
    \/ \E d \in Batches : BatchCollect(d)
    \/ \E r \in Runs : FetchMemories(r)
    \/ \E r \in Runs : ConsolidationCheckAccess(r)
    \/ \E r \in Runs, facts \in FactLists : ExtractCoreFacts(r, facts)
    \/ \E r \in Runs : ExtractCoreFactsFails(r)
    \/ \E r \in Runs : FindEntity(r)
    \/ \E r \in Runs : UpdateEntity(r)
    \/ \E r \in Runs : MarkAsConsolidated(r)
    \/ \E r \in Runs : ConsolidationDeduct(r)

\* the Memory rows of the model: n fresh rows of tenant u1, one row a minute,
\* next to a row older than the window, a deleted row, a row already
\* consolidated and a row of another tenant
StoredMemories(n) ==
    {MemoryRow(<<"u1", 0, 0, i>>, "u1", "m", Now - i) : i \in 1..n}
    \cup {MemoryRow(<<"u1", 0, 0, 0>>, "u1", "m", CutoffDate - 1),
          [MemoryRow(<<"u1", 0, 1, 0>>, "u1", "m", Now) EXCEPT !.isDeleted = TRUE],
          [MemoryRow(<<"u1", 0, 2, 0>>, "u1", "m", Now) EXCEPT !.isConsolidated = TRUE],
          MemoryRow(<<"u2", 0, 0, 0>>, "u2", "m", Now)}

\* fresh rows stored: below the minimum, the minimum, more than one batch
\* and a minimum
MemoryCounts ==
    {MIN_MEMORIES_FOR_CONSOLIDATION - 1, MIN_MEMORIES_FOR_CONSOLIDATION,
     MAX_MEMORIES_PER_BATCH + MIN_MEMORIES_FOR_CONSOLIDATION}

\* the tenants consolidation may meet: a DIRECT HOBBY tenant with or without
\* credit, a RapidAPI tenant as getOrCreateRapidApiUser creates it (HOBBY,
\* creditsBalance 0) and one whose billing row was upgraded to PRO
ConsolidationTenants ==
    {[source |-> "DIRECT", tier |-> "HOBBY", balance |-> 0],
     [source |-> "DIRECT", tier |-> "HOBBY", balance |-> 100],
     [source |-> "RAPIDAPI", tier |-> "HOBBY", balance |-> 0],
     [source |-> "RAPIDAPI", tier |-> "PRO", balance |-> 0]}

\* one such tenant with its billing row, entity A stored for it
ConsolidationInit ==
    /\ \E t \in ConsolidationTenants :
         /\ tier = [u \in Users |-> IF u = "u1" THEN t.tier ELSE "HOBBY"]
         /\ source = [u \in Users |-> IF u = "u1" THEN t.source ELSE "DIRECT"]
         /\ redisBalance = [u \in Users |-> IF u = "u1" /\ t.source = "DIRECT"
                                             THEN Some(t.balance) ELSE None]
         /\ creditsBalance = [u \in Users |-> IF u = "u1" THEN Some(t.balance) ELSE None]
    /\ stripeCustomerId = [u \in Users |-> FALSE]
    /\ pendingSync = {}
    /\ invoices = <<>>
    /\ call = [p \in Procs |-> IdleCall]
    /\ hist = InitHist
    /\ entities = {EntityRow(<<"u1", 0, 0, 1>>, "u1", NameA, "Person", <<"d0">>,
                             DEFAULT_IMPORTANCE)}
    /\ relationships = {}
    /\ trav = IdleTraversal
    /\ \E n \in MemoryCounts : memories = StoredMemories(n)
    /\ jobs = [id \in AllJobIds |-> NoJob]
    /\ runs = [r \in Runs |-> IdleRun]
    /\ batches = [d \in Batches |-> IdleBatch]
    /\ serviceBalance = [u \in Users |-> None]
    /\ script = IdleScript

\* 5 fresh rows of tenant u2
OtherMemories ==
    {MemoryRow(<<"u2", 0, 0, i>>, "u2", "m", Now - i) :
        i \in 1..MIN_MEMORIES_FOR_CONSOLIDATION}

\* two DIRECT HOBBY tenants with billing rows: u1 with credit and 4 or 5 fresh
\* rows, u2 with or without credit and 5 fresh rows
BatchInit ==
    /\ tier = [u \in Users |-> "HOBBY"]
    /\ source = [u \in Users |-> "DIRECT"]
    /\ \E b \in {0, 100} :
         /\ redisBalance = [u \in Users |-> IF u = "u1" THEN Some(100) ELSE Some(b)]
         /\ creditsBalance = [u \in Users |-> IF u = "u1" THEN Some(100) ELSE Some(b)]
    /\ stripeCustomerId = [u \in Users |-> FALSE]
    /\ pendingSync = {}
    /\ invoices = <<>>
    /\ call = [p \in Procs |-> IdleCall]
    /\ hist = InitHist
    /\ entities = {EntityRow(<<"u1", 0, 0, 1>>, "u1", NameA, "Person", <<"d0">>,
                             DEFAULT_IMPORTANCE)}
    /\ relationships = {}
    /\ trav = IdleTraversal
    /\ \E n \in {MIN_MEMORIES_FOR_CONSOLIDATION - 1, MIN_MEMORIES_FOR_CONSOLIDATION} :
         memories = StoredMemories(n) \cup OtherMemories
    /\ jobs = [id \in AllJobIds |-> NoJob]
    /\ runs = [r \in Runs |-> IdleRun]
    /\ batches = [d \in Batches |-> IdleBatch]
    /\ serviceBalance = [u \in Users |-> None]
    /\ script = IdleScript

\* ingestion jobs of tenant u1 beside a consolidation cycle of the same tenant,
\* without provider or store failures
DurabilityNext ==
    \/ \E st \in Statements, t \in 1..MaxTime : AddMemory("u1", st, t)
    \/ \E id \in JobIds : StartAttempt(id)
    \/ \E id \in JobIds : JobCheckAccess(id)
    \/ \E id \in JobIds : JobEmbedAndExtract(id)
    \/ \E id \in JobIds : TxInsertMemory(id)
    \/ \E id \in JobIds : TxUpsertEntity(id)
    \/ \E id \in JobIds : TxCommit(id)
    \/ \E id \in JobIds : JobDeduct(id)
    \/ TriggerConsolidateUser(1, "u1")
    \/ \E r \in Runs : FetchMemories(r)
    \/ \E r \in Runs : ConsolidationCheckAccess(r)
    \/ \E r \in Runs, facts \in FactLists : ExtractCoreFacts(r, facts)
    \/ \E r \in Runs : FindEntity(r)
    \/ \E r \in Runs : UpdateEntity(r)
    \/ \E r \in Runs : MarkAsConsolidated(r)
    \/ \E r \in Runs : ConsolidationDeduct(r)

----------------------------------------------------------------------------
(* Specifications                                                          *)

\* no billing row, no Redis key, no call in progress
GuardQuiet ==
    /\ redisBalance = [u \in Users |-> None]
    /\ creditsBalance = [u \in Users |-> None]
    /\ tier = [u \in Users |-> "FREE"]
    /\ source = [u \in Users |-> "DIRECT"]
    /\ stripeCustomerId = [u \in Users |-> FALSE]
    /\ pendingSync = {}
    /\ invoices = <<>>
    /\ call = [p \in Procs |-> IdleCall]
    /\ hist = InitHist

\* an empty graph store, no retrieval in progress
GraphQuiet ==
    /\ entities = {}
    /\ relationships = {}
    /\ trav = IdleTraversal

\* an empty queue, no Memory row
WorkQuiet ==
    /\ memories = {}
    /\ jobs = [id \in AllJobIds |-> NoJob]
    /\ runs = [r \in Runs |-> IdleRun]
    /\ batches = [d \in Batches |-> IdleBatch]
    /\ serviceBalance = [u \in Users |-> None]
    /\ script = IdleScript

\* the CostGuard alone: tenants with any tier, lane and stored balance
Init == GuardInit /\ GraphQuiet /\ WorkQuiet

Spec == Init /\ [][GuardNext]_vars

BillingSpec == Init /\ [][BillingNext]_vars

\* ingestion jobs whose attempts may also fail at a progress update
RedeliverySpec == IngestInit /\ [][RedeliveryNext]_vars

\* overlapping checked deductions, as the worker's concurrent jobs make them
WorkerSpec == Init /\ [][WorkerNext]_vars

\* CostGuard calls one at a time, with the Stripe webhook
WebhookSpec == Init /\ [][WebhookNext]_vars

\* retrieval over a stored graph
RetrieveInit == TraversalInit /\ GuardQuiet /\ WorkQuiet

TraversalSpec == RetrieveInit /\ [][TraversalNext]_vars

IsolatedInit == IsolationInit /\ WorkQuiet

\* the retrieval endpoint over the graphs of two tenants
IsolationSpec == IsolatedInit /\ [][IsolationNext]_vars

\* consolidation cycles of one tenant, started by the scheduler or by hand
ConsolidationSpec == ConsolidationInit /\ [][ConsolidationNext]_vars

\* consolidation cycles over two tenants
BatchSpec == BatchInit /\ [][ConsolidationNext]_vars

\* ingestion and consolidation of one tenant side by side
DurabilitySpec == BatchInit /\ [][DurabilityNext]_vars

\* ingestion jobs over the queue, the graph store and the CostGuard
IngestSpec == IngestInit /\ [][IngestNext]_vars

\* the same, with workers that keep running the jobs they can run
FairIngestSpec == IngestSpec /\ WF_vars(JobSteps)

\* ingestion for a tenant of either lane
LaneIngestSpec == LaneIngestInit /\ [][LaneIngestNext]_vars

\* the pipeline script run once against the worker
PipelineSpec == IngestInit /\ [][PipelineNext]_vars


----------------------------------------------------------------------------
(* Claims about the CostGuard                                              *)

DirectHobby(u) == source[u] = "DIRECT" /\ tier[u] = "HOBBY"

C1_NoLostUpdate ==
    \A u \in Users :
        (DirectHobby(u) /\ hist.hydrated[u]) =>
            redisBalance[u] = Some(hist.initial[u] + hist.credited[u] - hist.deducted[u])

C1_ObservedNonIncreasing ==
    \A u \in Users :
        (/\ DirectHobby(u) /\ hist.hydrated[u]
         /\ hist'.credited[u] = 0
         /\ ~IsNone(hist.observed[u])) =>
            Get(hist'.observed[u]) <= Get(hist.observed[u])

C2_BalanceAboveFloor ==
    \A u \in Users :
        /\ tier[u] \in {"FREE", "HOBBY"} => Balance(u) >= 0
        /\ tier[u] = "PRO" => Balance(u) >= -PRO_MAX_NEGATIVE

\* a HOBBY balance brought to exactly zero by a granted, applied deduction
C2_Witness ==
    \E u \in Users :
        /\ DirectHobby(u) /\ hist.deducted[u] >= 1
        /\ redisBalance[u] = Some(0)

IsCheck(c) == c.op \in {"checkAccess", "paid"} /\ c.pc = "done"

C3_RapidApiResult ==
    (IsCheck(hist.last) /\ hist.last.ctx.source = "RAPIDAPI") =>
        /\ hist.last.result.kind = "return"
        /\ hist.last.result.allowed
        /\ ~hist.last.result.allowBackgroundJobs

C3_RapidApiFrame ==
    \A p \in Procs :
        (/\ call[p].op \in {"checkAccess", "deduct", "paid"}
         /\ call[p].ctx.source = "RAPIDAPI"
         /\ call'[p] # call[p]) =>
            UNCHANGED <<redisBalance, creditsBalance, pendingSync, invoices>>

\* C3: for a RAPIDAPI context checkAccess returns allowed=true and
\* allowBackgroundJobs=false whatever the cost, tier and balance, and no step of
\* checkAccess or deduct changes the Balance Store or the ledger.
C3_RapidApiIsolation == [](C3_RapidApiResult) /\ [][C3_RapidApiFrame]_vars

\* a RapidAPI check of 200 cents against a balance of 1 cent has returned
C3_Witness ==
    /\ IsCheck(hist.last) /\ hist.last.ctx.source = "RAPIDAPI"
    /\ hist.last.estimatedCost = 2000
    /\ Balance(hist.last.userId) = 1

C9_OneInvoicePerShortfall ==
    \A u \in Users : hist.invoicesSinceCredit[u] <= 1

\* the last finished call is a checkAccess that denied a DIRECT tenant
DeniedDirect ==
    /\ hist.last.pc = "done"
    /\ hist.last.ctx.source = "DIRECT"
    /\ hist.last.result.kind = "throw"
    /\ hist.last.result.code = "INSUFFICIENT_BALANCE"

\* the same checkAccess, repeated after addCredits(amount) on the balance it saw
SucceedsAfterCredit(c, amount) ==
    /\ IsInteger(amount)
    /\ ~ExceedsLimit(IncrBy(Some(c.result.value), amount \div Scale), c.ctx, c.estimatedCost)

\* C17: when checkAccess denies a DIRECT tenant, the shortfall it reports equals
\* floor - (balance - estimatedCost), and it is the smallest amount which, once
\* added with addCredits, makes the same checkAccess call succeed.
C17_ShortfallIsExactTopUp ==
    DeniedDirect =>
        LET c == hist.last
            shortfall == c.result.shortfall
        IN  /\ shortfall = MaxNegativeBalance(c.ctx.tier) * Scale
                              - BalanceAfter(c.result.value, c.estimatedCost)
            /\ SucceedsAfterCredit(c, shortfall)
            /\ \A amount \in 0..(shortfall - 1) : ~SucceedsAfterCredit(c, amount)

\* every deduct and addCredits call for tenant u has returned, at least one of
\* them changed the balance, every mirror write they started has reached the
\* ledger, and none of them failed (the tenant's ledger row exists)
MirrorSettled(u) ==
    /\ \A p \in Procs : Free(p)
    /\ pendingSync = {}
    /\ hist.deducted[u] + hist.credited[u] > 0
    /\ ~IsNone(creditsBalance[u])

\* C18: the ledger mirror is eventually consistent with the balance store: once
\* all deduct and addCredits calls for a tenant, and the mirror writes they
\* started, have completed without a crash or write failure, the ledger's
\* balance equals the balance in Redis.
C18_MirrorConverges ==
    \A u \in GuardUsers : MirrorSettled(u) => creditsBalance[u] = redisBalance[u]

\* C19: after a balance is set for a tenant through the billing endpoint and a
\* job submitted for that tenant completes, the balance the billing balance
\* endpoint reports equals the balance it reported before minus the cost in
\* the job's result.
C19_BillingSeesJobCost ==
    (script.pc = "done" /\ script.jobCompleted) =>
        script.finalBalance * Scale = script.balanceRes * Scale - script.cost

\* caller p's deduct for a DIRECT PRO context runs its INCRBY in this step
ProDeductStep(p) ==
    /\ Deduct(p)
    /\ call[p].ctx.source = "DIRECT" /\ call[p].ctx.tier = "PRO"
    /\ IsInteger(call[p].actualCost)

\* the step takes the tenant's balance from at or above the floor to below it
NewlyBreached(u) ==
    /\ IncrBy(redisBalance[u], 0) >= MaxNegativeBalance("PRO")
    /\ Get(redisBalance'[u]) < MaxNegativeBalance("PRO")

\* C21: for a PRO tenant, deduct triggers an overage invoice exactly when the
\* decrement newly breaches the floor (balance before >= floor, after < floor);
\* a deduct applied while the balance is already below the floor triggers no
\* further invoice.
C21_InvoiceOnlyWhenNewlyBreached ==
    [][\A p \in Procs :
          ProDeductStep(p) =>
              ((Len(invoices') = Len(invoices) + 1) <=> NewlyBreached(call[p].userId))]_vars

\* caller p's checkAccess ends in this step by throwing INSUFFICIENT_BALANCE
DenialStep(p) ==
    /\ call[p].op \in {"checkAccess", "paid"}
    /\ call[p].pc \in {"get", "load", "set"}
    /\ call'[p].pc = "idle"
    /\ hist'.last.result.kind = "throw"

\* every invoice is triggered by a step of a call made with a DIRECT PRO context
InvoicedOnlyForDirectPro ==
    invoices' # invoices =>
        \E p \in Procs :
            /\ call'[p] # call[p]
            /\ call[p].ctx.source = "DIRECT" /\ call[p].ctx.tier = "PRO"
            /\ Len(invoices') = Len(invoices) + 1
            /\ invoices'[Len(invoices')].userId = call[p].userId

\* a denied checkAccess for PRO appends one invoice
DenialInvoices(p) ==
    (DenialStep(p) /\ call[p].ctx.tier = "PRO") =>
        /\ Len(invoices') = Len(invoices) + 1
        /\ SubSeq(invoices', 1, Len(invoices)) = invoices
        /\ invoices'[Len(invoices')].userId = call[p].userId

----------------------------------------------------------------------------
(* Claims about graph traversal                                            *)

\* tenant u has a relationship cycle a -> b -> c -> a over three of its entities
CycleStored(u) ==
    \E a, b, c \in {e \in entities : e.userId = u /\ ~e.isDeleted} :
        /\ a.id # b.id /\ b.id # c.id /\ a.id # c.id
        /\ \A x \in {<<a, b>>, <<b, c>>, <<c, a>>} :
              \E r \in relationships :
                 /\ r.userId = u /\ ~r.isDeleted
                 /\ r.fromEntityId = x[1].id /\ r.toEntityId = x[2].id

\* how many times `name` stands in `path` as one of its ' -> '-joined names
Occurrences(name, path) ==
    Cardinality({i \in 1..(Len(path) - Len(name) + 1) :
                   /\ SubSeq(path, i, i + Len(name) - 1) = name
                   /\ i = 1 \/ path[i - 1] = SEP
                   /\ i + Len(name) - 1 = Len(path) \/ path[i + Len(name)] = SEP})

\* the traversal query has returned
TraversalDone == trav.pc = "done"

\* C6: given a relationship cycle A -> B -> C -> A, a retrieval with
\* graphDepth = 5 returns no path that contains the same entity name twice
\* (an entity is never revisited once it appears in a path).
C6_NoNameTwiceInPath ==
    (TraversalDone /\ trav.maxDepth = 5 /\ CycleStored(trav.userId)) =>
        \A row \in trav.graphNodes, e \in entities : Occurrences(e.name, row.path) <= 1

\* what does hold: the query ends within maxDepth iterations of the recursive
\* term, and names without a separator are never repeated in a path
TraversalBounded ==
    \A row \in trav.cte \cup trav.graphNodes : row.depth <= trav.maxDepth

PlainNamesNotRepeated ==
    \A row \in trav.graphNodes, e \in entities :
        FirstSep(e.name) = 0 => Occurrences(e.name, row.path) <= 1

\* C15: for any graph, fan-out and graphDepth the traversal returns at most
\* 50 rows, and every returned row has a depth between 1 and graphDepth: the
\* depth-0 anchor rows are never returned.
C15_TraversalCapped ==
    TraversalDone =>
        /\ Cardinality(trav.graphNodes) <= 50
        /\ \A row \in trav.graphNodes : row.depth \in 1..trav.maxDepth

\* the query found more than 50 rows below its anchors and returned 50
C15_Witness ==
    /\ TraversalDone
    /\ Cardinality({row \in trav.cte : row.depth > 0}) > 50
    /\ Cardinality(trav.graphNodes) = 50
    /\ \E row \in trav.cte : row.depth = 0

----------------------------------------------------------------------------
(* Claims about ingestion                                                  *)

Keys(rows) == {KeyOf(e) : e \in rows}

C5_OneRowPerKey ==
    \A e, f \in entities : KeyOf(e) = KeyOf(f) => e = f

C5_UpsertFrame ==
    /\ \A e \in entities :
         \E f \in entities' :
            /\ f.id = e.id /\ KeyOf(f) = KeyOf(e)
            /\ f.importance = e.importance /\ f.isDeleted = e.isDeleted
    /\ Cardinality(entities') =
         Cardinality(entities) + Cardinality(Keys(entities') \ Keys(entities))

\* C5: after any interleaving of ingestion jobs (concurrent jobs extracting
\* the same entity included) there is at most one Entity row per (userId,
\* name, type); a step that ingests an existing key keeps every row, with its
\* id, key, importance and deletion flag, and adds a row only for a new key.
C5_EntityUniqueness == [](C5_OneRowPerKey) /\ [][C5_UpsertFrame]_vars

\* two jobs of one tenant that both extracted entity A have completed, and
\* the tenant has its one row of A, holding the description one of them wrote
C5_Witness ==
    \E j, k \in JobIds :
        /\ j # k /\ jobs[j].userId = jobs[k].userId
        /\ jobs[j].state = "completed" /\ jobs[k].state = "completed"
        /\ jobs[j].text = "t2" /\ jobs[k].text = "t3"
        /\ \E e \in entities :
              /\ KeyOf(e) = EntityKey(jobs[j].userId, NameA, "Person")
              /\ e.description \in {<<"d2">>, <<"d3">>}
              /\ e.embedding = e.description

Settled(id) == jobs[id].state \in {"completed", "failed"}

C10_Attempts ==
    \A id \in JobIds :
        /\ jobs[id].attemptsMade <= 3
        /\ jobs[id].state = "delayed" =>
              /\ jobs[id].attemptsMade \in {1, 2}
              /\ jobs[id].attemptsMade = 1 => jobs[id].delay = 2000
              /\ jobs[id].attemptsMade = 2 => jobs[id].delay = 4000
        /\ jobs[id].state = "failed" =>
              /\ jobs[id].attemptsMade = 3
              /\ getJobStatus(id).found /\ getJobStatus(id).state = "failed"

DeniedStep(id) ==
    /\ jobs[id].state = "active"
    /\ jobs'[id].state \in {"delayed", "failed"}
    /\ jobs'[id].failedReason = "INSUFFICIENT_BALANCE"

\* the Memory rows written by the attempts of job id
MemoriesOf(id) == {m \in memories : m.id[1] = id[1] /\ m.id[2] = id[2]}

\* C11: a job whose checkAccess is denied is never retried: it is in state
\* failed after that single attempt, so checkAccess (and the invoice it
\* triggers for PRO) runs at most once for the job.
C11_DeniedNeverRetried ==
    \A id \in JobIds :
        jobs[id].failedReason = "INSUFFICIENT_BALANCE" =>
            /\ jobs[id].state = "failed"
            /\ jobs[id].attemptsMade = 1

C14_RelationshipIntegrity ==
    /\ \A r, s \in relationships : RelationshipKey(r) = RelationshipKey(s) => r = s
    /\ \A r \in relationships :
          \E e, f \in entities :
             /\ e.id = r.fromEntityId /\ e.userId = r.userId
             /\ f.id = r.toEntityId /\ f.userId = r.userId

\* two jobs of one tenant that extracted the same relationship (each of them
\* twice) have completed, the two tenants hold rows, and the relationship is
\* stored
C14_Witness ==
    /\ \E j, k \in JobIds :
          /\ j # k /\ jobs[j].userId = jobs[k].userId
          /\ jobs[j].state = "completed" /\ jobs[k].state = "completed"
          /\ jobs[j].text = "t3" /\ jobs[k].text = "t3"
          /\ \E r \in relationships :
                /\ r.userId = jobs[j].userId /\ r.predicate = "knows"
                /\ \E e \in entities : e.id = r.fromEntityId /\ e.name = NameB
    /\ relationships # {}

\* the transaction of STEP D is open in this attempt of the job
TxOpen(job) == job.state = "active" /\ job.pc \in {"entities", "commit"}

\* a step of the job that calls the embedding or the extraction provider
ProviderCall(id) == JobEmbedAndExtract(id) \/ ProviderFails(id) \/ TxUpsertEntity(id)

\* C20: no embedding or graph extraction provider call is made while the
\* ingestion transaction is open: every provider call of a job completes before
\* the transaction begins.
C20_NoProviderCallInTransaction ==
    [][\A id \in JobIds : ProviderCall(id) => ~TxOpen(jobs[id])]_vars

\* graph extraction applies to the job: a DIRECT context, enableGraphExtraction
\* not false, and checkAccess returned allowBackgroundJobs = true
ExtractionApplies(job) ==
    /\ job.userContext.source = "DIRECT"
    /\ job.enableGraphExtraction
    /\ job.allowBackgroundJobs

\* a step of job id while extraction does not apply: STEP C keeps the empty
\* result and the commit writes one Memory row and nothing else
DegradedStep(id) ==
    /\ JobEmbedAndExtract(id) =>
          jobs'[id].entities = <<>> /\ jobs'[id].relationships = <<>>
    /\ TxCommit(id) =>
          /\ UNCHANGED <<entities, relationships>>
          /\ Cardinality(MemoriesOf(id)) = 0
          /\ Cardinality(memories' \ memories) = 1
    /\ jobs'[id].failedReason \in {jobs[id].failedReason, "PROVIDER_ERROR", "TRANSACTION_FAILED"}

\* a completed job to which extraction did not apply has one Memory row
DegradedCompleted(id) ==
    (jobs[id].state = "completed" /\ ~ExtractionApplies(jobs[id])) =>
        /\ Cardinality(MemoriesOf(id)) = 1
        /\ \A m \in MemoriesOf(id) : m.text = jobs[id].text /\ m.userId = jobs[id].userId

Committed(id) == jobs[id].pc = "deduct" \/ jobs[id].state = "completed"

\* the Entity and Relationship rows created by the attempts of job id
GraphRowsOf(id) ==
    {x \in entities \cup relationships :
        Len(x.id) = 4 /\ x.id[1] = id[1] /\ x.id[2] = id[2]}

\* every row the committed transaction of job id wrote is visible
AllVisible(id) ==
    LET job == jobs[id]
    IN  /\ Cardinality(MemoriesOf(id)) = 1
        /\ \A i \in 1..Len(job.entities) :
              \E e \in entities :
                  KeyOf(e) = EntityKey(job.userId, job.entities[i].name, job.entities[i].type)
        /\ \A i \in 1..Len(job.relationships) :
              LET relData == job.relationships[i]
              IN  (MapHas(job.entityMap, relData.from) /\ MapHas(job.entityMap, relData.to)) =>
                     \E r \in relationships :
                         RelationshipKey(r) = <<job.userId, MapGet(job.entityMap, relData.from),
                                                MapGet(job.entityMap, relData.to),
                                                relData.predicate>>

\* no row of job id is visible
NoneVisible(id) == MemoriesOf(id) = {} /\ GraphRowsOf(id) = {}

\* the rows other sessions see change only in the commit of one transaction
OnlyCommitWrites ==
    <<memories, entities, relationships>>' # <<memories, entities, relationships>> =>
        \E id \in JobIds : TxCommit(id)

DeductFailsStep(id) ==
    /\ jobs[id].state = "active" /\ jobs[id].pc = "deduct"
    /\ jobs'[id] # jobs[id]
    /\ jobs[id].userContext.source = "DIRECT" /\ ~IsInteger(ActualCost(jobs[id]))

----------------------------------------------------------------------------
(* Claims about consolidation                                              *)

\* run r2 of a tenant was started after run r1 of the same tenant had flagged
\* its batch and ended, and r2 has ended too
RanTwice(r1, r2) ==
    /\ r1 # r2 /\ r1 \in runs[r2].after
    /\ runs[r1].userId = runs[r2].userId
    /\ runs[r1].marked
    /\ Returned(r2)

\* the run processed zero memories, flagged no Memory row, updated no Entity
\* and deducted nothing
NoOpRun(r) ==
    /\ runs[r].result.kind = "return" /\ runs[r].result.skipped
    /\ runs[r].result.memoriesProcessed = 0
    /\ runs[r].batch = {} /\ ~runs[r].marked
    /\ runs[r].entitiesUpdated = 0
    /\ runs[r].charged = 0

\* C7 as stated: running ConsolidateUser twice, with no memory ingested in
\* between, is a no-op the second time: the second run processes zero
\* memories, flags no Memory row, updates no Entity and deducts nothing.
C7_SecondRunIsNoOp ==
    \A r1, r2 \in Runs : RanTwice(r1, r2) => NoOpRun(r2)

\* the rows of the tenant that were unconsolidated before any run: those
\* still unflagged and those some run took
Eligible(u) ==
    {m \in UnconsolidatedOrNot(u) :
        ~m.isConsolidated \/ \E r \in Runs : m.id \in runs[r].batch}

\* C7 as amended: the second run never takes a Memory row the first run
\* flagged, and it is a no-op whenever the tenant had fewer than 55
\* unconsolidated rows in the window (a batch of 50 and the minimum of 5);
\* with more rows the first run takes the newest 50 only and the second run
\* consolidates the next batch.
C7_SecondRunSkipsFlagged ==
    \A r1, r2 \in Runs :
        RanTwice(r1, r2) =>
            /\ runs[r2].batch \cap runs[r1].batch = {}
            /\ Cardinality(Eligible(runs[r2].userId))
                   < MAX_MEMORIES_PER_BATCH + MIN_MEMORIES_FOR_CONSOLIDATION
                 => NoOpRun(r2)

\* a second run that found the first run's batch flagged and did nothing
C7_Witness ==
    \E r1, r2 \in Runs :
        /\ RanTwice(r1, r2) /\ NoOpRun(r2)
        /\ Cardinality(runs[r1].batch) = MIN_MEMORIES_FOR_CONSOLIDATION

\* C16: consolidateUser for a tenant whose source is RAPIDAPI always returns
\* skipped, with no Entity update, no Memory row flagged, no provider call and
\* no balance change, whatever the tenant's balance, tier and number of
\* unconsolidated memories.
C16_RapidApiSkipped ==
    \A r \in Runs :
        (runs[r].pc # "idle" /\ source[runs[r].userId] = "RAPIDAPI") =>
            /\ runs[r].pc \notin {"extract", "find", "update", "mark", "deduct"}
            /\ ~runs[r].marked /\ runs[r].entitiesUpdated = 0 /\ runs[r].charged = 0
            /\ Returned(r) => (runs[r].result.kind = "return" /\ runs[r].result.skipped)

\* consolidateAllUsers call d is executing
Executing(d) == batches[d].pc = "loop"

\* C13: the consolidation batch driver is mutually exclusive with itself: at
\* no time are two consolidateAllUsers calls (scheduled or started through the
\* manual trigger) executing at once.
C13_OneBatchAtATime ==
    \A d1, d2 \in Batches : (Executing(d1) /\ Executing(d2)) => d1 = d2

\* C8: the importance of an Entity never decreases: no step writes a lower
\* importance than the one stored.
C8_ImportanceNeverDecreases ==
    [][\A e \in entities : \A f \in entities' :
          f.id = e.id => f.importance >= e.importance]_vars

\* the rows whose isConsolidated flag is set in this step
NewlyFlagged ==
    {m.id : m \in {x \in memories' : x.isConsolidated}} \
        {m.id : m \in {x \in memories : x.isConsolidated}}

\* run r fetches in this step: it goes on only with 5 to 50 rows, all of them
\* unconsolidated, non-deleted rows of the tenant inside the window, as many
\* as the limit allows and none older than a row left out
FetchTakesMostRecent(r) ==
    LET eligible == Unconsolidated(runs[r].userId)
        taken == {m \in eligible : m.id \in runs'[r].batch}
    IN  FetchMemories(r) =>
          /\ runs'[r].batch = {m.id : m \in taken}
          /\ IF Cardinality(eligible) < MIN_MEMORIES_FOR_CONSOLIDATION
             THEN runs'[r].batch = {} /\ runs'[r].pc = "done" /\ runs'[r].result.skipped
             ELSE /\ Cardinality(taken) = Min(Cardinality(eligible), MAX_MEMORIES_PER_BATCH)
                  /\ \A x \in eligible \ taken, y \in taken : x.createdAt <= y.createdAt

\* memoriesProcessed of a result is 0 or between the minimum and the batch size
ProcessedInRange(result) ==
    \/ result.memoriesProcessed = 0
    \/ /\ result.memoriesProcessed >= MIN_MEMORIES_FOR_CONSOLIDATION
       /\ result.memoriesProcessed <= MAX_MEMORIES_PER_BATCH

\* C26: consolidateUser processes a tenant only if it has at least 5
\* unconsolidated, non-deleted Memory rows created within the trailing 24 hours,
\* and then takes at most 50 of them, most recently created first:
\* memoriesProcessed is always either 0 or between 5 and 50, and exactly the
\* taken rows are flagged consolidated.
C26_BatchBounds ==
    /\ [](\A r \in Runs :
            /\ runs[r].batch = {} \/ (Cardinality(runs[r].batch) >= MIN_MEMORIES_FOR_CONSOLIDATION
                                       /\ Cardinality(runs[r].batch) <= MAX_MEMORIES_PER_BATCH)
            /\ ProcessedInRange(runs[r].result)
            /\ (runs[r].result.kind = "return" /\ ~runs[r].result.skipped) =>
                   runs[r].result.memoriesProcessed = Cardinality(runs[r].batch)
            /\ runs[r].batch = {} => ~runs[r].marked)
    /\ [](\A d \in Batches : \A i \in 1..Len(batches[d].results) :
            ProcessedInRange(batches[d].results[i]))
    /\ [][/\ \A r \in Runs : FetchTakesMostRecent(r)
          /\ \A r \in Runs :
                MarkAsConsolidated(r) =>
                    /\ NewlyFlagged \subseteq runs[r].batch
                    /\ \A m \in memories' : m.id \in runs[r].batch => m.isConsolidated
          /\ memories' # memories => \E r \in Runs : MarkAsConsolidated(r)]_vars

\* of 55 eligible rows a run has taken and flagged the 50 most recent, and
\* the 5 oldest are left
C26_Witness ==
    \E r \in Runs :
        /\ runs[r].marked /\ Cardinality(runs[r].batch) = MAX_MEMORIES_PER_BATCH
        /\ {m.createdAt : m \in Unconsolidated("u1")} =
               {Now - i : i \in (MAX_MEMORIES_PER_BATCH + 1)..
                                 (MAX_MEMORIES_PER_BATCH + MIN_MEMORIES_FOR_CONSOLIDATION)}

\* run r is at its pre-flight check and checkAccess, called now, denies it or
\* returns allowBackgroundJobs = false
ConsolidationDenied(r) ==
    LET run == runs[r]
        res == IF run.userContext.source = "RAPIDAPI" THEN RapidApiResult
               ELSE DirectResult(Balance(run.userId), run.userContext, run.estimatedCost)
    IN  /\ run.pc = "check"
        /\ res.kind = "throw" \/ ~res.allowed \/ ~res.allowBackgroundJobs

\* a step of run r from a denied check: it returns skipped with a reason, and
\* no Entity, Memory or balance changes
SkipsWithoutWrite(r) ==
    (ConsolidationDenied(r) /\ runs'[r] # runs[r]) =>
        /\ runs'[r].pc = "done"
        /\ runs'[r].result.kind = "return" /\ runs'[r].result.skipped
        /\ runs'[r].result.reason # ""
        /\ runs'[r].result.memoriesProcessed = 0 /\ runs'[r].result.entitiesUpdated = 0
        /\ runs'[r].result.cost = 0
        /\ UNCHANGED <<entities, memories, creditsBalance, pendingSync>>
        /\ Balance(runs[r].userId)' = Balance(runs[r].userId)

\* a run that returned skipped has called no provider and written nothing
SkippedRunIsClean(r) ==
    (runs[r].pc = "done" /\ runs[r].result.skipped) =>
        /\ runs[r].coreFacts = <<>> /\ runs[r].entitiesUpdated = 0
        /\ ~runs[r].marked /\ runs[r].charged = 0

\* C27: if checkAccess denies the consolidation or returns
\* allowBackgroundJobs = false, consolidateUser returns skipped = true with a
\* reason and performs no write: no Entity is updated, no Memory row is flagged
\* consolidated, the summarization provider is not called and nothing is
\* deducted.
C27_DeniedRunWritesNothing ==
    /\ [](\A r \in Runs : SkippedRunIsClean(r))
    /\ [][\A r \in Runs :
            /\ SkipsWithoutWrite(r)
            /\ runs[r].pc = "done" => runs'[r] = runs[r]]_vars

\* a run that took 5 rows was denied and returned skipped; the rows are not
\* flagged
C27_Witness ==
    \E r \in Runs :
        /\ runs[r].pc = "done" /\ runs[r].result.reason = "Cost check failed"
        /\ Cardinality(runs[r].batch) = MIN_MEMORIES_FOR_CONSOLIDATION
        /\ \A m \in memories : m.id \in runs[r].batch => ~m.isConsolidated

\* fact i of run r matches a stored, non-deleted Entity of the tenant
FactMatches(r, i) ==
    \E e \in entities :
        /\ e.userId = runs[r].userId /\ ~e.isDeleted
        /\ e.name = runs[r].coreFacts[i].entityName
        /\ e.type = runs[r].coreFacts[i].entityType

CacheMiss(p) ==
    /\ IsNone(redisBalance[call[p].userId])
    /\ ~IsNone(creditsBalance[call[p].userId])

\* C30: addCredits and deduct applied to a tenant whose balance is not yet in
\* Redis (cache miss) operate on the ledger balance L: addCredits(a) stores and
\* returns L + a, deduct(c) stores L - c.
C30_CacheMissUsesLedger ==
    [][\A p \in Procs :
         LET u == call[p].userId
             L == Get(creditsBalance[u])
             amount == call[p].actualCost \div Scale
         IN  /\ (AddCredits(p) /\ CacheMiss(p)) =>
                    /\ redisBalance'[u] = Some(L + amount)
                    /\ call'[p].balance = L + amount
             /\ (Deduct(p) /\ CacheMiss(p) /\ call[p].ctx.source = "DIRECT"
                    /\ IsInteger(call[p].actualCost)) =>
                    redisBalance'[u] = Some(L - amount)]_vars

\* a finished consolidateAllUsers holds one result per tenant it found
OneResultPerTenant(d) ==
    batches[d].pc = "done" =>
        /\ Len(batches[d].results) = Cardinality(batches[d].usersWithMemories)
        /\ Len(batches[d].userIds) = Len(batches[d].results)
        /\ \A u \in batches[d].usersWithMemories :
              Cardinality({i \in 1..Len(batches[d].userIds) : batches[d].userIds[i] = u}) = 1

\* consolidateAllUsers d collects in this step a consolidateUser call that
\* threw: the error becomes that tenant's result and the loop goes on
FailureRecorded(d) ==
    LET r == batches[d].run
    IN  (batches[d].pc = "loop" /\ r # 0 /\ batches'[d] # batches[d]
           /\ runs[r].result.kind = "throw") =>
          /\ batches'[d].results = Append(batches[d].results,
                                            SkippedResult(runs[r].result.reason))
          /\ batches'[d].userIds = Append(batches[d].userIds, runs[r].userId)
          /\ batches'[d].users = batches[d].users
          /\ batches'[d].pc = IF batches[d].users = {} THEN "done" ELSE "loop"

\* C29: consolidateAllUsers calls consolidateUser sequentially for every tenant
\* that meets the unconsolidated-memory threshold and returns exactly one result
\* per such tenant; when consolidateUser fails for one tenant, that failure is
\* recorded in that tenant's result and all remaining tenants are still
\* processed.
C29_OneResultPerTenant ==
    /\ [](\A d \in Batches : OneResultPerTenant(d))
    /\ [][\A d \in Batches :
            /\ FailureRecorded(d)
            /\ StartConsolidateAllUsers(d) =>
                  batches'[d].usersWithMemories =
                      {u \in Users :
                          Cardinality(Unconsolidated(u)) >= MIN_MEMORIES_FOR_CONSOLIDATION}
            /\ \A r \in Runs, u \in Users :
                  BatchConsolidateUser(d, r, u) =>
                      /\ batches[d].run = 0
                      /\ u \in batches[d].usersWithMemories
                      /\ \A i \in 1..Len(batches[d].userIds) : batches[d].userIds[i] # u]_vars

\* a consolidateAllUsers over two tenants has returned: the call for the first
\* tenant threw, its error is the first result, and the second tenant has its
\* result too
C29_Witness ==
    \E d \in Batches :
        /\ batches[d].pc = "done" /\ batches[d].usersWithMemories = Users
        /\ Len(batches[d].results) = 2
        /\ batches[d].results[1].reason = "DEDUCTION_FAILED"

\* C31: after the payment-succeeded event for a PRO tenant's overage invoice has
\* been handled, the balance getBalance and checkAccess see is the cleared
\* balance (zero), not the negative balance from before the payment, and a later
\* deduct starts from that cleared balance.
C31_PaymentClearsBalance ==
    [][\A i \in 1..Len(invoices) :
         (PaymentSucceeded(i) /\ tier[invoices[i].userId] = "PRO") =>
             /\ Balance(invoices[i].userId)' = 0
             /\ IncrBy(redisBalance'[invoices[i].userId], -1) = -1]_vars

\* call p writes the value it loaded from the ledger into Redis, for a tenant
\* that had no key at the start and whose ledger row has not been written since:
\* no credit or deduction made so far is contained in the loaded value
HydrationWrite(p) ==
    LET u == call[p].userId
    IN  /\ RedisSet(p)
        /\ ~hist.hydrated[u]
        /\ creditsBalance[u] = Some(hist.initial[u])
        /\ call[p].balance = hist.initial[u]

\* C32: lazy hydration never loses a deduction: under any interleaving of a
\* getBalance/checkAccess that misses Redis and loads the ledger value with
\* concurrent deduct or addCredits calls for the same tenant, the Redis value is
\* the ledger value at hydration plus all credits minus all deductions.
C32_HydrationLosesNothing ==
    [][\A p \in Procs :
         HydrationWrite(p) =>
             redisBalance'[call[p].userId] =
                 Some(hist.initial[call[p].userId] + hist.credited[call[p].userId]
                        - hist.deducted[call[p].userId])]_vars

C34_FailedExtractionFlagsNothing ==
    \A r \in Runs :
        runs[r].extractFailed => (~runs[r].marked /\ runs[r].charged = 0)

\* consolidateAllUsers d pushes in this step a result with skipped = true
PushesSkipped(d) ==
    /\ Len(batches'[d].results) = Len(batches[d].results) + 1
    /\ batches'[d].results[Len(batches'[d].results)].skipped
    /\ batches'[d].results[Len(batches'[d].results)].memoriesProcessed = 0
    /\ batches'[d].results[Len(batches'[d].results)].cost = 0

\* C35: every result entry of consolidateAllUsers with skipped = true
\* (memoriesProcessed 0, cost 0) belongs to a tenant for which that run flagged
\* no Memory row as consolidated, updated no Entity and deducted nothing.
C35_SkippedMeansUntouched ==
    [][\A d \in Batches :
         PushesSkipped(d) =>
             /\ ~runs[batches[d].run].marked
             /\ runs[batches[d].run].entitiesUpdated = 0
             /\ runs[batches[d].run].charged = 0]_vars

\* C36: every failing attempt of an ingestion job fails before the transaction
\* commits and before deduct, so a job that ends in state failed has left no
\* Memory row and no deduction, and a job that ends in state completed has
\* produced exactly one Memory row (and at most one deduction) across all of
\* its attempts.
C36_FailedJobLeavesNothing ==
    /\ \A id \in JobIds :
          /\ jobs[id].state = "failed" => MemoriesOf(id) = {}
          /\ jobs[id].state = "completed" => Cardinality(MemoriesOf(id)) = 1
    /\ [][\A id \in JobIds :
            (jobs[id].state = "active" /\ jobs'[id].state \in {"delayed", "failed"}) =>
                (~Committed(id) /\ redisBalance' = redisBalance)]_vars

\* C37: any two addMemory calls that are both accepted return distinct jobIds
\* and enqueue two distinct jobs, also when they are made for the same tenant at
\* the same instant: a call the endpoint accepts in this state gets a jobId no
\* job accepted before holds.
C37_AcceptedSubmitsGetOwnJob ==
    \A u \in Users, st \in Statements, t \in 1..MaxTime :
        ENABLED AddMemory(u, st, t) => JobId(u, t) \notin JobIds

\* C38: the retrieval endpoint is tenant-isolated: a retrieve request
\* authenticated as tenant U never returns entities or graph nodes stored for
\* another tenant, whatever userId the request carries.
C38_RetrieveIsTenantIsolated ==
    [][\A caller \in Users, u \in Users, a \in SUBSET {"e1", "e2", "g1", "g2"},
         d \in GraphDepths :
           RetrieveRequest(caller, u, a, d) =>
               \A e \in entities : e.id \in a => e.userId = caller]_vars

\* C39: a fact that consolidation has appended to an Entity's description is
\* still contained in that description after any later or concurrent ingestion
\* job that re-extracts the same (userId, name, type) entity.
C39_ConsolidatedFactsDurable ==
    [][\A id \in JobIds :
         TxCommit(id) =>
             \A e \in entities, f \in {"f1", "f2"} :
                 f \in Elements(e.description) =>
                     \E e2 \in entities' :
                         e2.id = e.id /\ f \in Elements(e2.description)]_vars

\* the walks of k relationships from an anchor of tenant u: non-deleted
\* relationships of u followed from -> to over non-deleted entities of u, each
\* with the path of its names, the chain of its predicates and their counts
RECURSIVE Walks(_, _, _)
Walks(u, anchorEntityIds, k) ==
    IF k = 0
    THEN {[entityId |-> e.id, path |-> e.name, chain |-> None, names |-> 1,
           predicates |-> 0] :
            e \in {x \in entities : x.id \in anchorEntityIds /\ x.userId = u /\ ~x.isDeleted}}
    ELSE {[entityId |-> t[3].id, path |-> JoinPath(t[1].path, t[3].name),
           chain |-> JoinChain(t[1].chain, t[2].predicate),
           names |-> t[1].names + 1, predicates |-> t[1].predicates + 1] :
            t \in {x \in Walks(u, anchorEntityIds, k - 1) \X relationships \X entities :
                     /\ x[2].fromEntityId = x[1].entityId
                     /\ x[2].toEntityId = x[3].id
                     /\ x[2].userId = u /\ ~x[2].isDeleted
                     /\ x[3].userId = u /\ ~x[3].isDeleted}}

\* node n is the end of such a walk, with the walk's path and chain, and its
\* depth is the walk's number of predicates and one less than its number of names
ReachedByWalk(n) ==
    \E w \in Walks(trav.userId, trav.anchorEntityIds, n.depth) :
        /\ w.entityId = n.entityId
        /\ w.path = n.path
        /\ w.chain = n.relationshipChain
        /\ n.depth = w.predicates
        /\ n.depth = w.names - 1

====
